---- MODULE Spec2Model ----
(***************************************************************************)
(* Token resolution, caching and the fire-and-forget HTTP handlers of the   *)
(* Trakt sync addon (src/server.js).                                        *)
(*                                                                          *)
(* One Node.js process serves requests.  A request runs synchronously up to *)
(* its next `await`; every action below is one such synchronous stretch, so *)
(* that requests interleave exactly where the event loop lets them.         *)
(* The remote key-value store (Upstash) and the tracking service (Trakt)    *)
(* are the environment: their answers are chosen nondeterministically.      *)
(***************************************************************************)
EXTENDS Integers, Sequences, FiniteSets, TLC

VARIABLES
  now,                \* Date.now(), counted in seconds
  upstashTokenCache,  \* Map configId -> {tokens, timestamp}
  store,              \* remote store: value under trakt_tokens:<configId>
  traktGen,           \* last token generation issued by the tracking service
  traktStatsCache,    \* Map `${imdbId}_${type}_stats` -> {stats, timestamp}
  userRatingCache,    \* Map media and token prefix -> {rating, timestamp}
  ticks,              \* how often the clock has advanced
  req                 \* per request: position in its handler and its locals

vars == <<now, upstashTokenCache, store, traktGen, traktStatsCache,
          userRatingCache, ticks, req>>

\* the caches of the presentation data, which token resolution never touches
displayCaches == <<traktStatsCache, userRatingCache>>

----------------------------------------------------------------------------
(* Bounds of the model *)

MaxTicks == 3         \* how many times the clock advances
MaxGen == 3           \* token generations the tracking service issues
MaxLen == 3           \* characters of a string value of a preference object
MaxIdLen == 6         \* characters of the id given to parseStremioId

----------------------------------------------------------------------------
(* Program constants.  TLC's integers have 32 bits and 30 days of           *)
(* milliseconds do not fit: the model counts time in seconds, and every      *)
(* duration of the source (all whole seconds) is its value divided by 1000.  *)

DAY == 24 * 60 * 60
CACHE_TTL == 30 * 60
UPSTASH_CACHE_TTL == 5 * 60
USER_RATING_CACHE_TTL == 10 * 60
REFRESH_WINDOW_DAYS == 30

StartTime == 100 * DAY            \* the clock when the process starts
HalfTTL == UPSTASH_CACHE_TTL \div 2

NULL == [null |-> TRUE]           \* JavaScript null / undefined / absent

ConfigIds == {"c1"}
Reqs == {"r1"}
AllReqs == {"r1", "r2"}

EmbTok == 9                       \* the access token embedded in a config
StoreTok == 1                     \* the token generation first put in the store
AccessTokens == (1..MaxGen) \cup {EmbTok}

Media == {"tt1"}                  \* the media item the requests are about

\* accessToken.substring(0, 10), the part of the token in the rating cache key:
\* a token is a number whose last digit stands for its first ten characters
\* and whose other digits stand for the rest of it
TokenPrefix(a) == a % 10

\* an access token that differs from EmbTok after its first ten characters
TwinTok == EmbTok + 10
RatingKeys == Media \X {TokenPrefix(a) : a \in AccessTokens}

----------------------------------------------------------------------------
(* Decoded configurations (the result of decodeConfig) *)

Cfg(s, a, e, cl, u, t, id) ==
  [storage |-> s, access_token |-> a, refresh_token |-> a, expires_at |-> e,
   clientId |-> cl, upstashUrl |-> u, upstashToken |-> t, configId |-> id]

UrlConfigs ==
  { Cfg(s, a, e, "cid", "", "", "") :
      s \in {"", "url"}, a \in {0, EmbTok},
      e \in {StartTime - DAY, StartTime + 90 * DAY} }

UpstashCreds ==
  { <<"u1", "k1", "c1">>, <<"", "k1", "c1">>, <<"u1", "", "c1">>, <<"u1", "k1", "">> }

UpstashConfigs ==
  { Cfg("upstash", a, StartTime + 90 * DAY, cl, k[1], k[2], k[3]) :
      a \in {0, EmbTok}, cl \in {"", "cid"}, k \in UpstashCreds }

OtherConfigs == { Cfg("local", EmbTok, StartTime + 90 * DAY, "cid", "", "", "") }

\* the remote store answers a request only when it carries the store's own
\* URL and token (the Authorization header of upstashGet)
StoreAccepts(c) == c.upstashUrl = "u1" /\ c.upstashToken = "k1"

\* configs that name the session of another user with credentials that the
\* remote store rejects
RejectedConfigs ==
  { Cfg("upstash", a, StartTime + 90 * DAY, "cid", k[1], k[2], "c1") :
      a \in {0, EmbTok}, k \in { <<"u1", "bad">>, <<"u2", "k1">> } }

\* the configs that select the remote store and name its credentials
RemoteConfigs ==
  { c \in UpstashConfigs :
      c.upstashUrl # "" /\ c.upstashToken # "" /\ c.configId # "" }

\* what parseStremioId makes of the id of a request
IdKinds == {"movie", "episode", "unparsable"}

\* NULL stands for a config string that decodeConfig cannot decode
Configs == UrlConfigs \cup UpstashConfigs \cup OtherConfigs \cup {NULL}

----------------------------------------------------------------------------
(* Token sets, as stored in the remote store and the local cache *)

Tokens(a, rt, e) == [access_token |-> a, refresh_token |-> rt, expires_at |-> e]

ExpiryOffsets == {0 - DAY, DAY \div 2, 10 * DAY, 30 * DAY, 90 * DAY}

InitialStoreValues ==
  {NULL} \cup { Tokens(StoreTok, rt, StartTime + off) :
                  rt \in {0, StoreTok}, off \in ExpiryOffsets }

\* Object.assign(userConfig, tokens): keys of tokens overwrite those of userConfig
Merge(uc, tokens) ==
  [uc EXCEPT !.access_token = tokens.access_token,
             !.refresh_token = IF tokens.refresh_token # 0
                                 THEN tokens.refresh_token ELSE @,
             !.expires_at = tokens.expires_at]

TokensOf(uc) == Tokens(uc.access_token, uc.refresh_token, uc.expires_at)

----------------------------------------------------------------------------
(* Request records *)

\* the locals of a call of makeTraktRequest: its arguments, the preferences it
\* reads, and what it did with the tracking service, in order
IdleWrite ==
  [action |-> "none", ref |-> "none",
   keepSingleWatchedState |-> FALSE, markAsPlayedOnRate |-> FALSE,
   cleanupDone |-> FALSE, trace |-> <<>>, result |-> "none"]

\* a use of the config codec: the preference object, its encoding, the string
\* given to decodeConfig and what decodeConfig returned; for a manifest
\* request, the descriptor sent
IdleCodec ==
  [pref |-> NULL, encoded |-> <<>>, origin |-> "none", input |-> <<>>,
   decoded |-> NULL, manifest |-> NULL]

\* the kinds of entries of the stream listing, in the default order
DefaultStreamOrder ==
  <<"current_rating", "rating", "watched", "season_watched", "series_watched",
    "add_to_watchlist", "remove_from_watchlist", "unwatched">>

\* the preferences the stream handler destructures from the session, with
\* their defaults
DefaultPrefs ==
  [ratings |-> <<>>, markAsWatched |-> TRUE, markAsUnwatched |-> TRUE,
   enableSeasonWatched |-> TRUE, enableWatchlist |-> TRUE,
   enableRemoveFromWatchlist |-> TRUE, showCurrentRating |-> TRUE,
   enableRemoveRating |-> TRUE, streamOrder |-> DefaultStreamOrder]

\* a call of one of the pure helpers: its name, its arguments and its result
IdlePure == [fn |-> "none", arg |-> <<>>, out |-> NULL]

IdleReq ==
  [kind |-> "none", pc |-> "idle", cfg |-> NULL, now |-> 0,
   userConfig |-> NULL, fetched |-> NULL, newTokens |-> NULL,
   result |-> NULL, returned |-> FALSE,
   \* history of the resolution, for the properties
   src |-> "none", gets |-> 0, refreshCalls |-> 0,
   entryAge |-> -1,      \* age of the cache entry found by the first lookup
   usedAge |-> -1,       \* age of the cache entry whose tokens were used
   getOutcome |-> "none", resolved |-> NULL, refreshOutcome |-> "none",
   \* the route handler: its request, its response and what it did, in order
   idKind |-> "none", prefsOK |-> TRUE, titleOK |-> TRUE,
   response |-> "none", responses |-> 0, events |-> <<>>, threw |-> FALSE,
   writeOutcome |-> "none",
   \* getUserRating
   token |-> 0, ratingNow |-> 0, rating |-> -1, ratingAge |-> -1,
   ratingOutcome |-> "none",
   \* fetchTraktStats
   statsNow |-> 0, stats |-> NULL, statsAge |-> -1, statsOutcome |-> "none",
   \* POST /oauth/tokens: the cache entry read when the request arrived
   cached |-> NULL,
   \* makeTraktRequest
   w |-> IdleWrite,
   \* encodeConfig / decodeConfig
   codec |-> IdleCodec,
   \* the stream listing: the preferences and the streams array sent
   prefs |-> DefaultPrefs, streams |-> <<>>,
   \* parseStremioId, formatNumber, generateRatingVisual
   pure |-> IdlePure,
   \* the answer of the tracking service to the rating fetch, on its way back
   served |-> NULL]

\* getUserConfigWithTokens returns `result` to its caller: a direct call is
\* over, a route handler goes on after its await
ResolverReturn(rec, result, src) ==
  [rec EXCEPT !.pc = IF rec.kind = "resolve" THEN "done" ELSE "resolved",
              !.result = result, !.src = src, !.returned = TRUE]

\* (a variant that keeps an entry of exactly the TTL's age)
CacheFresh_Inclusive(cached, t) ==
  cached # NULL /\ (t - cached.timestamp) <= UPSTASH_CACHE_TTL

\* cached && (now - cached.timestamp) < UPSTASH_CACHE_TTL
CacheFresh(cached, t) ==
  cached # NULL /\ (t - cached.timestamp) < UPSTASH_CACHE_TTL

\* Math.floor((expiresAt - now) / (24 * 60 * 60 * 1000))
DaysRemaining(uc, t) == (uc.expires_at - t) \div DAY

\* if (daysRemaining < 30 && daysRemaining > 0)
NeedsRefresh(uc, t) ==
  DaysRemaining(uc, t) < REFRESH_WINDOW_DAYS /\ DaysRemaining(uc, t) > 0

\* (a variant that shares one refresh among the requests of a session: a
\* request that finds a refresh of its session in flight sends none)
RefreshStart_SingleFlight(rec, src) ==
  IF \/ rec.userConfig.refresh_token = 0 \/ rec.userConfig.clientId = ""
     \/ \E q \in AllReqs :
          /\ req[q].pc \in {"refresh_post", "refresh_settings", "set_sent",
                            "set_applied"}
          /\ req[q].cfg.configId = rec.cfg.configId
    THEN ResolverReturn([rec EXCEPT !.refreshOutcome = "missing"],
                        rec.userConfig, src)
    ELSE [rec EXCEPT !.pc = "refresh_post", !.src = src,
                     !.refreshCalls = @ + 1]

\* refreshTraktTokens up to its first await: null when the refresh token or
\* the client id is missing, else the POST to the token endpoint is sent
RefreshStart(rec, src) ==
  IF rec.userConfig.refresh_token = 0 \/ rec.userConfig.clientId = ""
    THEN ResolverReturn([rec EXCEPT !.refreshOutcome = "missing"],
                        rec.userConfig, src)
    ELSE [rec EXCEPT !.pc = "refresh_post", !.src = src,
                     !.refreshCalls = @ + 1]

\* the tokens are merged into userConfig; refresh when inside the window
AfterMerge(rec, src) ==
  LET r1 == [rec EXCEPT !.resolved = TokensOf(rec.userConfig)]
  IN IF NeedsRefresh(r1.userConfig, r1.now)
       THEN RefreshStart(r1, src)
       ELSE ResolverReturn(r1, r1.userConfig, src)

\* (a variant that forgets the absent storage field)
IsUrlStorage_OnlyUrl(c) == c.storage = "url"

\* if (!userConfig.storage || userConfig.storage === 'url')
IsUrlStorage(c) == c.storage = "" \/ c.storage = "url"

\* (a variant that prefers the config's own token to the cached one)
RemoteFailureFallback_ConfigFirst(rec, cached) ==
  IF rec.userConfig.access_token # 0
    THEN ResolverReturn(rec, rec.userConfig, "config_fallback")
    ELSE IF cached # NULL
      THEN ResolverReturn(
             [rec EXCEPT !.userConfig = Merge(@, cached.tokens),
                         !.usedAge = now - cached.timestamp],
             Merge(rec.userConfig, cached.tokens), "cache_fallback")
      ELSE ResolverReturn(rec, NULL, "none")

\* the catch of the remote failure: expired cache, then config tokens, then null
RemoteFailureFallback(rec, cached) ==
  IF cached # NULL
    THEN ResolverReturn(
           [rec EXCEPT !.userConfig = Merge(@, cached.tokens),
                       !.usedAge = now - cached.timestamp],
           Merge(rec.userConfig, cached.tokens), "cache_fallback")
    ELSE IF rec.userConfig.access_token # 0
      THEN ResolverReturn(rec, rec.userConfig, "config_fallback")
      ELSE ResolverReturn(rec, NULL, "none")

\* getUserConfigWithTokens from its call to its first await (or its return)
ResolveStart(base, c) ==
  LET rec == [base EXCEPT !.cfg = c, !.now = now, !.userConfig = c]
  IN IF c = NULL THEN ResolverReturn(rec, NULL, "none")
     ELSE IF IsUrlStorage(c)
       THEN IF c.access_token # 0
              THEN ResolverReturn(rec, c, "embedded")
              ELSE ResolverReturn(rec, NULL, "none")
     ELSE IF c.storage = "upstash"
       THEN IF c.upstashUrl = "" \/ c.upstashToken = "" \/ c.configId = ""
              THEN ResolverReturn(rec, NULL, "none")
              ELSE LET cached == upstashTokenCache[c.configId]
                   IN IF CacheFresh(cached, now)
                        THEN AfterMerge(
                               [rec EXCEPT !.userConfig = Merge(c, cached.tokens),
                                           !.entryAge = now - cached.timestamp,
                                           !.usedAge = now - cached.timestamp],
                               "cache")
                        ELSE [rec EXCEPT !.pc = "get_sent", !.gets = @ + 1,
                                         !.entryAge =
                                           IF cached = NULL THEN -1
                                           ELSE now - cached.timestamp]
     ELSE ResolverReturn(rec, NULL, "none")

----------------------------------------------------------------------------
(* getUserRating and fetchTraktStats *)

\* cached && (now - cached.timestamp) < USER_RATING_CACHE_TTL
RatingFresh(cached, t) ==
  cached # NULL /\ (t - cached.timestamp) < USER_RATING_CACHE_TTL

\* (a variant that serves any stats entry, whatever its age)
StatsFresh_AnyAge(cached, t) == cached # NULL

\* cached && (now - cached.timestamp) < CACHE_TTL
StatsFresh(cached, t) ==
  cached # NULL /\ (t - cached.timestamp) < CACHE_TTL

\* the ratings the tracking service may hold for the media (0: not rated)
Ratings == {0, 8}

\* a stream object: the action of its url and, for a rating entry, the rating
Entry(action, rating) == [action |-> action, rating |-> rating]

RECURSIVE createRatingStreams(_, _)
\* one rate_only entry for each rating of the list that differs from the
\* current rating
createRatingStreams(ratings, currentRating) ==
  IF ratings = <<>> THEN <<>>
  ELSE (IF currentRating = 0 \/ currentRating # Head(ratings)
          THEN <<Entry("rate_only", Head(ratings))>> ELSE <<>>)
       \o createRatingStreams(Tail(ratings), currentRating)

\* createSeasonWatchedStream: its season parameter defaults to null when the
\* parsed id has no season (a movie id or a series-level id)
createSeasonWatchedStream(idKind) ==
  IF idKind # "movie" /\ idKind = "episode"
    THEN <<Entry("mark_season_watched", 0)>> ELSE <<>>

\* one case of the switch over streamType; `parsedId.season !== null` holds
\* for an episode id and for an id without season (undefined)
EntriesOf(streamType, rec) ==
  LET p == rec.prefs
      series == rec.idKind # "movie"
  IN CASE streamType = "current_rating" ->
            IF p.showCurrentRating /\ rec.rating > 0 /\ p.enableRemoveRating
              THEN <<Entry("remove_rating", rec.rating)>> ELSE <<>>
       [] streamType = "rating" -> createRatingStreams(p.ratings, rec.rating)
       [] streamType = "watched" ->
            IF p.markAsWatched THEN <<Entry("mark_watched", 0)>> ELSE <<>>
       [] streamType = "season_watched" ->
            IF series /\ p.enableSeasonWatched
              THEN createSeasonWatchedStream(rec.idKind) ELSE <<>>
       [] streamType = "series_watched" ->
            IF series /\ p.markAsWatched
              THEN <<Entry("mark_series_watched", 0)>> ELSE <<>>
       [] streamType = "add_to_watchlist" ->
            IF p.enableWatchlist
              THEN <<Entry("add_to_watchlist", 0)>> ELSE <<>>
       [] streamType = "remove_from_watchlist" ->
            IF p.enableRemoveFromWatchlist
              THEN <<Entry("remove_from_watchlist", 0)>> ELSE <<>>
       [] streamType = "unwatched" ->
            IF p.markAsUnwatched THEN <<Entry("mark_unwatched", 0)>> ELSE <<>>
       [] OTHER -> <<>>

RECURSIVE StreamsFor(_, _)
\* for (const streamType of streamOrder) ... streams.push(...)
StreamsFor(order, rec) ==
  IF order = <<>> THEN <<>>
  ELSE EntriesOf(Head(order), rec) \o StreamsFor(Tail(order), rec)

\* (a variant that lists the kinds in the default order, whatever the user's)
BuildStreams_DefaultOrder(rec) == StreamsFor(DefaultStreamOrder, rec)

\* the streams array after the loop
BuildStreams(rec) == StreamsFor(rec.prefs.streamOrder, rec)

\* (a variant of the stream handler whose catch answers with an error status)
StreamRespond_Error(rec, body) ==
  [rec EXCEPT !.pc = "done", !.responses = @ + 1,
              !.response = IF rec.threw THEN "error" ELSE body]

\* res.json({ streams }) of the stream listing
StreamRespond(rec, body) ==
  [rec EXCEPT !.pc = "done", !.response = body, !.responses = @ + 1,
              !.streams = IF body = "streams" THEN BuildStreams(rec)
                          ELSE <<>>]

\* fetchTraktStats returns to formatRatingTitle (or to a direct caller)
StatsReturn(rec, stats, age, outcome) ==
  LET r1 == [rec EXCEPT !.stats = stats, !.statsAge = age,
                        !.statsOutcome = outcome]
  IN IF rec.kind = "stats" THEN [r1 EXCEPT !.pc = "done"]
     ELSE StreamRespond(r1, "streams")

\* fetchTraktStats up to its await
FetchTraktStatsStart(rec, m) ==
  LET cached == traktStatsCache[m]
  IN IF StatsFresh(cached, now)
       THEN StatsReturn(rec, cached.stats, now - cached.timestamp, "cached")
       ELSE [rec EXCEPT !.pc = "stats_fetch", !.statsNow = now]

\* the loop over streamOrder: a preference of the wrong shape makes it throw,
\* which the handler's catch answers with an empty list; a rating entry is
\* titled by formatRatingTitle, which fetches the statistics given a client id
StreamBuild(rec) ==
  IF ~rec.prefsOK
    THEN StreamRespond([rec EXCEPT !.threw = TRUE], "empty")
    ELSE IF rec.result.clientId # ""
      THEN FetchTraktStatsStart(rec, "tt1")
      ELSE StreamRespond(rec, "streams")

\* getUserRating returns to the stream handler (or to a direct caller)
RatingReturn(rec, v, age, outcome) ==
  LET r1 == [rec EXCEPT !.rating = v, !.ratingAge = age,
                        !.ratingOutcome = outcome]
  IN IF rec.kind = "rating" THEN [r1 EXCEPT !.pc = "done"]
     ELSE StreamBuild(r1)

\* getUserRating up to its await
GetUserRatingStart(rec, tok) ==
  LET cached == userRatingCache[<<"tt1", TokenPrefix(tok)>>]
      r1 == [rec EXCEPT !.token = tok]
  IN IF RatingFresh(cached, now)
       THEN RatingReturn(r1, cached.rating, now - cached.timestamp, "cached")
       ELSE [r1 EXCEPT !.pc = "rating_fetch", !.ratingNow = now]

----------------------------------------------------------------------------
(* The route handlers *)

\* the stream handler after `await getUserConfigWithTokens(config)`
StreamContinuation(rec) ==
  IF rec.result = NULL \/ rec.result.access_token = 0
    THEN StreamRespond(rec, "empty")
    ELSE IF rec.idKind = "unparsable"
      THEN StreamRespond(rec, "empty")
      ELSE GetUserRatingStart(rec, rec.result.access_token)

\* (a variant that awaits the action and redirects afterwards)
ActionHandlerStart_RedirectLast(base) ==
  IF ~base.titleOK
    THEN [base EXCEPT !.pc = "crashed", !.threw = TRUE]
    ELSE [base EXCEPT !.pc = "timer"]

\* the trakt-action handler: it logs decodeURIComponent(title), which throws
\* on a malformed escape; else it arms the timer and redirects to the decoy
ActionHandlerStart(base) ==
  IF ~base.titleOK
    THEN [base EXCEPT !.pc = "crashed", !.threw = TRUE]
    ELSE [base EXCEPT !.pc = "timer", !.response = "redirect",
                      !.responses = @ + 1, !.events = <<"redirect">>]

\* the timer callback after `await getUserConfigWithTokens(config)`
ActionContinuation(rec) ==
  IF rec.result # NULL /\ rec.result.access_token # 0
    THEN [rec EXCEPT !.pc = "writing", !.events = Append(@, "write")]
    ELSE [rec EXCEPT !.pc = "done"]

----------------------------------------------------------------------------
(* makeTraktRequest and deleteOlderWatchedStates *)

\* the cases of `switch (action)`
ActionKinds ==
  {"mark_watched", "mark_unwatched", "mark_season_watched",
   "mark_series_watched", "rate_only", "remove_rating", "add_to_watchlist",
   "remove_from_watchlist"}

\* the action names a caller may pass: the eight of the switch and a name
\* that no case of the switch matches
ActionNames == ActionKinds \cup {"unknown_action"}

\* what type, season and episode refer to: a movie, or a series with season
\* and episode, with a season only, or with neither
MediaRefs == {"movie", "episode", "season", "series"}

\* type === 'movie', or type === 'series' && season && episode
IsMovieOrEpisode(ref) == ref \in {"movie", "episode"}

\* a fetch to the tracking service is issued and awaited at position pc
Send(rec, endpoint, pc) ==
  [rec EXCEPT !.pc = pc, !.w.trace = Append(@, <<"send", endpoint>>)]

\* the awaited fetch is answered
Answered(rec, endpoint, outcome) ==
  [rec EXCEPT !.w.trace = Append(@, <<"answer", endpoint, outcome>>)]

\* return { success: true, ... } after the switch, or { success: false, ... }
\* from the catch
MakeTraktReturn(rec, success) ==
  [rec EXCEPT !.pc = "done",
              !.w.result = IF success THEN "success" ELSE "failure"]

\* the path of the main write of each case of the switch; "none" where no
\* branch of the case matches the media reference
MainEndpoint(action, ref) ==
  CASE action = "mark_watched" -> "sync/history"
    [] action = "mark_unwatched" ->
         IF IsMovieOrEpisode(ref) THEN "sync/history/remove" ELSE "none"
    [] action = "mark_season_watched" -> "sync/history"
    [] action = "mark_series_watched" -> "sync/history"
    [] action = "rate_only" -> "sync/ratings"
    [] action = "remove_rating" -> "sync/ratings/remove"
    [] action = "add_to_watchlist" -> "sync/watchlist"
    [] action = "remove_from_watchlist" -> "sync/watchlist/remove"
    [] OTHER -> "none"

\* the main write of the action is issued; without one the switch falls
\* through to the success return
MainWrite(rec) ==
  LET endpoint == MainEndpoint(rec.w.action, rec.w.ref)
  IN IF endpoint = "none" THEN MakeTraktReturn(rec, TRUE)
     ELSE Send(rec, endpoint, "w_main")

\* deleteOlderWatchedStates up to its await: the history of a movie or of an
\* episode is removed; for another reference it returns 0 at once, and the
\* caller goes on to its 500 ms delay
DeleteOlderWatchedStatesStart(rec) ==
  IF IsMovieOrEpisode(rec.w.ref)
    THEN Send(rec, "sync/history/remove", "w_remove")
    ELSE [rec EXCEPT !.pc = "w_delay"]

\* makeTraktRequest up to its first await
MakeTraktRequestStart(rec) ==
  IF rec.w.action = "mark_watched" /\ rec.w.keepSingleWatchedState
    THEN DeleteOlderWatchedStatesStart(rec)
    ELSE IF /\ rec.w.action = "rate_only"
            /\ IsMovieOrEpisode(rec.w.ref)
            /\ rec.w.markAsPlayedOnRate /\ rec.w.keepSingleWatchedState
      THEN DeleteOlderWatchedStatesStart(rec)
      ELSE MainWrite(rec)

\* (a variant of deleteOlderWatchedStates without its catch and its test of
\* removeResponse.ok: a removal that fails ends the action)
AfterRemove_Fatal(rec, outcome) ==
  IF outcome = "ok"
    THEN [Answered(rec, "sync/history/remove", outcome) EXCEPT
            !.pc = "w_delay", !.w.cleanupDone = TRUE]
    ELSE MakeTraktReturn(Answered(rec, "sync/history/remove", outcome), FALSE)

\* deleteOlderWatchedStates returns 1 after a 2xx answer and 0 after any other
\* answer or a thrown error; the caller goes on to its delay
AfterRemove(rec, outcome) ==
  [Answered(rec, "sync/history/remove", outcome) EXCEPT
     !.pc = "w_delay", !.w.cleanupDone = (outcome = "ok")]

\* setTimeout(resolve, 500) has fired: the mark-watched write follows, which
\* for a rating is the extra write before the rating
AfterDelay(rec) ==
  LET r1 == [rec EXCEPT !.w.trace = Append(@, <<"delay">>)]
  IN IF rec.w.action = "rate_only"
       THEN Send(r1, "sync/history", "w_watch")
       ELSE MainWrite(r1)

\* (a variant that does not test response.ok)
AfterMainWrite_Unchecked(rec, outcome) ==
  MakeTraktReturn(Answered(rec, MainEndpoint(rec.w.action, rec.w.ref), outcome),
                  outcome # "error")

\* if (!response.ok) throw ...: the catch returns success false; a thrown
\* fetch goes to the same catch
AfterMainWrite(rec, outcome) ==
  MakeTraktReturn(Answered(rec, MainEndpoint(rec.w.action, rec.w.ref), outcome),
                  outcome = "ok")

----------------------------------------------------------------------------
(* encodeConfig and decodeConfig.  A text is a sequence of code points, a    *)
(* buffer a sequence of bytes, a base64 string a sequence of symbols: 0..63  *)
(* for the characters of the standard alphabet ('+' is 62 and '/' is 63),    *)
(* and the symbols of B64 for the others.                                    *)

\* the code points of the characters the texts are made of
Ch ==
  [lbrace |-> 123, rbrace |-> 125, quote |-> 34, colon |-> 58, comma |-> 44,
   backslash |-> 92, zero |-> 48, nine |-> 57, u |-> 117, a |-> 97,
   s |-> 115, gt |-> 62, question |-> 63, eacute |-> 233,
   replacement |-> 65533]

\* the literals true and false
TrueText == <<116, 114, 117, 101>>
FalseText == <<102, 97, 108, 115, 101>>

\* the symbols of a base64 string outside the standard alphabet's letters and
\* digits: '-', '_', '=' and a character of no base64 alphabet
B64 == [plus |-> 62, slash |-> 63, minus |-> 64, underscore |-> 65,
        pad |-> 66, other |-> 67]

\* JSON values: strings, non-negative integers, booleans and objects (a
\* sequence of key/value pairs, in insertion order)
Str(cps) == [t |-> "str", s |-> cps]
Num(n) == [t |-> "num", n |-> n]
Bool(b) == [t |-> "bool", b |-> b]
Obj(pairs) == [t |-> "obj", kv |-> pairs]

RECURSIVE Digits(_)
\* the decimal digits of n
Digits(n) ==
  IF n < 10 THEN <<Ch.zero + n>>
  ELSE Digits(n \div 10) \o <<Ch.zero + (n % 10)>>

RECURSIVE Escape(_)
\* the body of a JSON string: quote and backslash are escaped
Escape(cps) ==
  IF cps = <<>> THEN <<>>
  ELSE (IF Head(cps) \in {Ch.quote, Ch.backslash}
          THEN <<Ch.backslash, Head(cps)>>
          ELSE <<Head(cps)>>) \o Escape(Tail(cps))

RECURSIVE JsonStringify(_)
RECURSIVE StringifyPairs(_)
StringifyPairs(pairs) ==
  IF pairs = <<>> THEN <<>>
  ELSE <<Ch.quote>> \o Escape(pairs[1][1]) \o <<Ch.quote, Ch.colon>>
         \o JsonStringify(pairs[1][2])
         \o (IF Len(pairs) > 1 THEN <<Ch.comma>> ELSE <<>>)
         \o StringifyPairs(Tail(pairs))

\* JSON.stringify(value)
JsonStringify(v) ==
  CASE v.t = "str" -> <<Ch.quote>> \o Escape(v.s) \o <<Ch.quote>>
    [] v.t = "num" -> Digits(v.n)
    [] v.t = "bool" -> IF v.b THEN TrueText ELSE FalseText
    [] v.t = "obj" -> <<Ch.lbrace>> \o StringifyPairs(v.kv) \o <<Ch.rbrace>>

RECURSIVE Utf8Encode(_)
\* Buffer.from(jsonStr): the UTF-8 bytes of the text
Utf8Encode(cps) ==
  IF cps = <<>> THEN <<>>
  ELSE LET c == Head(cps)
       IN (IF c < 128 THEN <<c>>
           ELSE IF c < 2048 THEN <<192 + (c \div 64), 128 + (c % 64)>>
           ELSE <<224 + (c \div 4096), 128 + ((c \div 64) % 64), 128 + (c % 64)>>)
          \o Utf8Encode(Tail(cps))

RECURSIVE Base64Encode(_)
\* .toString('base64'): three bytes make four symbols, the rest is padded
Base64Encode(bytes) ==
  LET n == Len(bytes)
  IN IF n = 0 THEN <<>>
     ELSE IF n = 1
       THEN <<bytes[1] \div 4, (bytes[1] % 4) * 16, B64.pad, B64.pad>>
     ELSE IF n = 2
       THEN <<bytes[1] \div 4, ((bytes[1] % 4) * 16) + (bytes[2] \div 16),
              (bytes[2] % 16) * 4, B64.pad>>
     ELSE <<bytes[1] \div 4, ((bytes[1] % 4) * 16) + (bytes[2] \div 16),
            ((bytes[2] % 16) * 4) + (bytes[3] \div 64), bytes[3] % 64>>
          \o Base64Encode(SubSeq(bytes, 4, n))

\* .replace(/\+/g, '-').replace(/\//g, '_')
ToUrlSafe(str) ==
  [i \in 1..Len(str) |->
     IF str[i] = B64.plus THEN B64.minus
     ELSE IF str[i] = B64.slash THEN B64.underscore ELSE str[i]]

RECURSIVE StripPadding(_)
\* .replace(/=+$/g, '')
StripPadding(str) ==
  IF str # <<>> /\ str[Len(str)] = B64.pad
    THEN StripPadding(SubSeq(str, 1, Len(str) - 1))
    ELSE str

\* encodeConfig(config)
encodeConfig(config) ==
  StripPadding(ToUrlSafe(Base64Encode(Utf8Encode(JsonStringify(config)))))

\* configString.replace(/-/g, '+').replace(/_/g, '/')
FromUrlSafe(str) ==
  [i \in 1..Len(str) |->
     IF str[i] = B64.minus THEN B64.plus
     ELSE IF str[i] = B64.underscore THEN B64.slash ELSE str[i]]

RECURSIVE AddPadding(_)
\* while (base64.length % 4 !== 0) base64 += '='
AddPadding(str) ==
  IF Len(str) % 4 # 0 THEN AddPadding(Append(str, B64.pad)) ELSE str

IsSextet(x) == x < 64

RECURSIVE SextetsToBytes(_)
SextetsToBytes(sx) ==
  LET n == Len(sx)
  IN IF n < 2 THEN <<>>
     ELSE IF n = 2 THEN <<(sx[1] * 4) + (sx[2] \div 16)>>
     ELSE IF n = 3
       THEN <<(sx[1] * 4) + (sx[2] \div 16), ((sx[2] % 16) * 16) + (sx[3] \div 4)>>
     ELSE <<(sx[1] * 4) + (sx[2] \div 16), ((sx[2] % 16) * 16) + (sx[3] \div 4),
            ((sx[3] % 4) * 64) + sx[4]>>
          \o SextetsToBytes(SubSeq(sx, 5, n))

\* Buffer.from(base64, 'base64'): the decoder of Node.js never throws; it
\* accepts both alphabets, skips every other character and the padding, and
\* drops a last group of a single symbol
Base64Decode(str) == SextetsToBytes(SelectSeq(FromUrlSafe(str), IsSextet))

IsContinuation(b) == b >= 128 /\ b < 192

\* (a variant that reads one character per byte)
Latin1Decode(bytes) == bytes

RECURSIVE Utf8Decode(_)
\* .toString('utf8'): a byte that begins no well-formed sequence becomes U+FFFD
Utf8Decode(bytes) ==
  LET n == Len(bytes)
  IN IF n = 0 THEN <<>>
     ELSE LET b == bytes[1]
          IN IF b < 128 THEN <<b>> \o Utf8Decode(Tail(bytes))
             ELSE IF b >= 194 /\ b < 224 /\ n >= 2 /\ IsContinuation(bytes[2])
               THEN <<((b - 192) * 64) + (bytes[2] - 128)>>
                      \o Utf8Decode(SubSeq(bytes, 3, n))
             ELSE IF /\ b >= 224 /\ b < 240 /\ n >= 3
                     /\ IsContinuation(bytes[2]) /\ IsContinuation(bytes[3])
                     /\ ((b - 224) * 4096) + ((bytes[2] - 128) * 64) >= 2048
               THEN <<((b - 224) * 4096) + ((bytes[2] - 128) * 64)
                        + (bytes[3] - 128)>>
                      \o Utf8Decode(SubSeq(bytes, 4, n))
             ELSE <<Ch.replacement>> \o Utf8Decode(Tail(bytes))

\* the parser's answer: a syntax error, or a value and the position after it
ParseFail == [ok |-> FALSE]
ParseOk(v, next) == [ok |-> TRUE, val |-> v, next |-> next]

RECURSIVE ParseStringBody(_, _, _)
\* the characters of a string up to its closing quote; the escapes \" and \\
\* (the other escapes need letters that no text of the model has after a
\* backslash), no control character
ParseStringBody(t, i, acc) ==
  IF i > Len(t) THEN ParseFail
  ELSE IF t[i] = Ch.quote THEN ParseOk(Str(acc), i + 1)
  ELSE IF t[i] = Ch.backslash
    THEN IF i + 1 <= Len(t) /\ t[i + 1] \in {Ch.quote, Ch.backslash}
           THEN ParseStringBody(t, i + 2, Append(acc, t[i + 1]))
           ELSE ParseFail
  ELSE IF t[i] < 32 THEN ParseFail
  ELSE ParseStringBody(t, i + 1, Append(acc, t[i]))

IsDigit(c) == c >= Ch.zero /\ c <= Ch.nine

RECURSIVE ParseDigits(_, _, _)
ParseDigits(t, i, n) ==
  IF i <= Len(t) /\ IsDigit(t[i])
    THEN ParseDigits(t, i + 1, (n * 10) + (t[i] - Ch.zero))
    ELSE ParseOk(Num(n), i)

\* the text t has the literal lit at position i
LiteralAt(t, i, lit) ==
  i + Len(lit) - 1 <= Len(t) /\ SubSeq(t, i, i + Len(lit) - 1) = lit

RECURSIVE ParseValue(_, _)
RECURSIVE ParseMembers(_, _, _)
\* the members of an object from position i, after those of acc: a key, a
\* colon, a value, then a comma and more members or the closing brace
ParseMembers(t, i, acc) ==
  IF i > Len(t) \/ t[i] # Ch.quote THEN ParseFail
  ELSE LET k == ParseStringBody(t, i + 1, <<>>)
       IN IF ~k.ok THEN ParseFail
          ELSE IF k.next > Len(t) \/ t[k.next] # Ch.colon THEN ParseFail
          ELSE LET v == ParseValue(t, k.next + 1)
               IN IF ~v.ok THEN ParseFail
                  ELSE IF v.next > Len(t) THEN ParseFail
                  ELSE IF t[v.next] = Ch.rbrace
                    THEN ParseOk(Obj(Append(acc, <<k.val.s, v.val>>)),
                                 v.next + 1)
                  ELSE IF t[v.next] = Ch.comma
                    THEN ParseMembers(t, v.next + 1,
                                      Append(acc, <<k.val.s, v.val>>))
                  ELSE ParseFail

\* a JSON value at position i: a string, an integer without leading zero,
\* true, false or an object (the texts have no bracket, sign, white space or
\* null, and no key twice in an object)
ParseValue(t, i) ==
  IF i > Len(t) THEN ParseFail
  ELSE IF t[i] = Ch.quote THEN ParseStringBody(t, i + 1, <<>>)
  ELSE IF t[i] = Ch.zero THEN ParseOk(Num(0), i + 1)
  ELSE IF IsDigit(t[i]) THEN ParseDigits(t, i, 0)
  ELSE IF LiteralAt(t, i, TrueText)
    THEN ParseOk(Bool(TRUE), i + Len(TrueText))
  ELSE IF LiteralAt(t, i, FalseText)
    THEN ParseOk(Bool(FALSE), i + Len(FalseText))
  ELSE IF t[i] = Ch.lbrace
    THEN IF i + 1 <= Len(t) /\ t[i + 1] = Ch.rbrace
           THEN ParseOk(Obj(<<>>), i + 2)
           ELSE ParseMembers(t, i + 1, <<>>)
  ELSE ParseFail

\* JSON.parse(jsonStr) inside decodeConfig's try: NULL stands for the null
\* that the catch returns after a SyntaxError
JsonParse(t) ==
  LET r == ParseValue(t, 1)
  IN IF r.ok /\ r.next = Len(t) + 1 THEN r.val ELSE NULL

\* decodeConfig(configString)
decodeConfig(configString) ==
  JsonParse(Utf8Decode(Base64Decode(AddPadding(FromUrlSafe(configString)))))

\* the characters of the string values of the preference objects: 'a', '>'
\* and '?' (whose bytes make '+' and '/'), the quote and a two-byte character
UserChars == {Ch.a, Ch.gt, Ch.question, Ch.quote, Ch.eacute}

TextsUpTo(n) == UNION { [1..k -> UserChars] : k \in 0..n }

\* the members of a preference object that the manifest reads: username
\* (key "u" in the model) and showUsernameInName (key "s")
UsernameKey == <<Ch.u>>
ShowUsernameKey == <<Ch.s>>

\* the preference objects: with or without a username, which is a string or
\* a number, and with or without showUsernameInName
PrefObjects ==
  LET names == {<<>>}
                 \cup { <<<<UsernameKey, Str(s)>>>> : s \in TextsUpTo(MaxLen) }
                 \cup { <<<<UsernameKey, Num(n)>>>> : n \in {0, 7, 10} }
      shows == {<<>>}
                 \cup { <<<<ShowUsernameKey, Bool(b)>>>> : b \in BOOLEAN }
  IN { Obj(n \o sh) : n \in names, sh \in shows }

\* strings that no encodeConfig has produced: up to three characters among
\* 'M', 'Q', '-' and a character outside the alphabets
GarbageStrings ==
  UNION { [1..k -> {12, 16, B64.minus, B64.other}] : k \in 0..3 }

----------------------------------------------------------------------------
(* The manifest routes *)

\* the value of a member of a decoded config; NULL stands for undefined (a
\* number, a string or a boolean has no such member)
Member(v, key) ==
  IF v # NULL /\ v.t = "obj" /\ \E i \in 1..Len(v.kv) : v.kv[i][1] = key
    THEN v.kv[CHOOSE i \in 1..Len(v.kv) : v.kv[i][1] = key][2]
    ELSE NULL

\* the truthiness of a decoded value
Truthy(v) ==
  /\ v # NULL
  /\ CASE v.t = "str" -> v.s # <<>>
       [] v.t = "num" -> v.n # 0
       [] v.t = "bool" -> v.b
       [] OTHER -> TRUE

\* let username = 'Trakt User'
DefaultUsername == [t |-> "text", text |-> "Trakt User"]

\* the descriptor of GET /manifest.json
DefaultManifest ==
  [id |-> [base |-> "org.stremio.trakt"],
   name |-> [base |-> "Trakt Sync & Rate"],
   configurationRequired |-> TRUE,
   link |-> [path |-> "/configure"]]

\* the descriptor that GET /configured/:config/manifest.json builds in its
\* try block from the decoded config
ConfiguredManifestFor(config, userConfig) ==
  LET username == IF Truthy(userConfig)
                       /\ Truthy(Member(userConfig, UsernameKey))
                    THEN Member(userConfig, UsernameKey)
                    ELSE DefaultUsername
      showUsername == IF Truthy(userConfig)
                           /\ Member(userConfig, ShowUsernameKey) # NULL
                        THEN Member(userConfig, ShowUsernameKey)
                        ELSE Bool(TRUE)
  IN [id |-> [base |-> "org.stremio.trakt", config |-> config],
      name |-> IF Truthy(showUsername) /\ Truthy(username)
                 THEN [base |-> "Trakt Sync & Rate", user |-> username]
                 ELSE [base |-> "Trakt Sync & Rate"],
      description |-> [user |-> username],
      configurationRequired |-> FALSE,
      link |-> [path |-> "/configure", config |-> config]]

----------------------------------------------------------------------------
(* parseStremioId.  An id is a sequence of characters. *)

\* the characters of the ids: a letter of the 'tt' prefix, a digit, the
\* separator and a character that is neither
IdChars == {"t", "7", ":", "x"}

Ids == UNION { [1..k -> IdChars] : k \in 0..MaxIdLen }

RECURSIVE Split(_, _)
\* id.split(':'), the part being read in cur
Split(id, cur) ==
  IF id = <<>> THEN <<cur>>
  ELSE IF Head(id) = ":" THEN <<cur>> \o Split(Tail(id), <<>>)
  ELSE Split(Tail(id), Append(cur, Head(id)))

\* id.startsWith('tt')
StartsWithTT(id) == Len(id) >= 2 /\ id[1] = "t" /\ id[2] = "t"

\* id.includes(':')
HasColon(id) == \E i \in 1..Len(id) : id[i] = ":"

IsDigitChar(c) == c = "7"

RECURSIVE LeadingDigits(_)
\* the digits a part begins with
LeadingDigits(part) ==
  IF part # <<>> /\ IsDigitChar(Head(part))
    THEN <<Head(part)>> \o LeadingDigits(Tail(part))
    ELSE <<>>

\* parseInt(part): the number written by the leading digits, NaN without one
\* (the number is kept as its digits)
ParseInt(part) ==
  IF LeadingDigits(part) = <<>> THEN [nan |-> TRUE]
  ELSE [digits |-> LeadingDigits(part)]

\* parseStremioId(id, type)
parseStremioId(id, type) ==
  IF type = "movie" /\ StartsWithTT(id) THEN [imdbId |-> id]
  ELSE IF type = "series" /\ HasColon(id)
    THEN LET parts == Split(id, <<>>)
         IN IF Len(parts) = 3
              THEN [imdbId |-> parts[1], season |-> ParseInt(parts[2]),
                    episode |-> ParseInt(parts[3])]
              ELSE NULL
  ELSE IF type = "series" /\ StartsWithTT(id) THEN [imdbId |-> id]
  ELSE NULL

----------------------------------------------------------------------------
(* formatNumber and generateRatingVisual *)

\* (num / unit).toFixed(1), as the tenths it prints: the quotient is rounded
\* to the nearest tenth; when it lies halfway between two tenths the double
\* nearest to it decides, which tieUp stands for
ToFixed1(num, unit, tieUp) ==
  LET step == unit \div 10
      q == num \div step
      rest == num % step
  IN IF 2 * rest > step \/ (2 * rest = step /\ tieUp) THEN q + 1 ELSE q

\* the text of the tenths with .replace(/\.0$/, '') applied, and the suffix
\* appended
WithSuffix(tenths, suffix) ==
  IF tenths % 10 = 0 THEN <<tenths \div 10, suffix>>
  ELSE <<tenths \div 10, ".", tenths % 10, suffix>>

\* formatNumber(num); the text is the sequence of its number, its decimal
\* point and digit if any, and its suffix if any
formatNumber(num, tieUp) ==
  IF num >= 1000000 THEN WithSuffix(ToFixed1(num, 1000000, tieUp), "M")
  ELSE IF num >= 1000 THEN WithSuffix(ToFixed1(num, 1000, tieUp), "k")
  ELSE <<num>>

\* the statistics given to formatNumber: around each threshold and each
\* rounding step
NumberInputs ==
  (0..20) \cup (940..1060) \cup (1940..1960) \cup (999940..1000060)
    \cup {1500, 99949, 99950, 1049999, 1050000, 1500000, 1949999, 1950000,
          2000000}

\* the glyphs of a style: filled and empty
Glyphs(style) ==
  CASE style = "hearts" -> [filled |-> "red heart", empty |-> "white heart"]
    [] style = "progress" -> [filled |-> "filled bar", empty |-> "empty bar"]
    [] OTHER -> [filled |-> "black star", empty |-> "white star"]

\* the styles given to generateRatingVisual: none, the three it knows and
\* another one
RatingStyles == {"undefined", "stars", "hearts", "progress", "numbers"}

\* for (let i = 1; i <= 10; i++)
RowLength == 10

\* (a variant whose comparison is strict)
generateRatingVisual_Strict(style, rating) ==
  IF style \in {"undefined", "stars", "hearts", "progress"}
    THEN [i \in 1..RowLength |->
            IF i < rating THEN Glyphs(style).filled ELSE Glyphs(style).empty]
    ELSE <<>>

\* generateRatingVisual(style, rating), for a rating that is an integer
generateRatingVisual(style, rating) ==
  IF style \in {"undefined", "stars", "hearts", "progress"}
    THEN [i \in 1..RowLength |->
            IF i <= rating THEN Glyphs(style).filled ELSE Glyphs(style).empty]
    ELSE <<>>

----------------------------------------------------------------------------
(* Actions *)

Init ==
  /\ now = StartTime
  /\ upstashTokenCache = [id \in ConfigIds |-> NULL]
  /\ store \in [ConfigIds -> InitialStoreValues]
  /\ traktGen = StoreTok
  /\ traktStatsCache = [m \in Media |-> NULL]
  /\ userRatingCache = [k \in RatingKeys |-> NULL]
  /\ ticks = 0
  /\ req = [r \in AllReqs |-> IdleReq]

\* a caller invokes getUserConfigWithTokens(config)
Resolve(r, c) ==
  /\ req[r].pc \in {"idle", "done", "crashed"}
  /\ req' = [req EXCEPT ![r] = ResolveStart([IdleReq EXCEPT !.kind = "resolve"], c)]
  /\ UNCHANGED <<now, upstashTokenCache, store, traktGen>>
  /\ UNCHANGED <<displayCaches, ticks>>

\* the remote store serves the get: it reads the value under the key
StoreServesGet(r) ==
  /\ req[r].pc = "get_sent"
  /\ StoreAccepts(req[r].cfg)
  /\ req' = [req EXCEPT ![r].pc = "get_served",
                        ![r].fetched = store[req[r].cfg.configId]]
  /\ UNCHANGED <<now, upstashTokenCache, store, traktGen>>
  /\ UNCHANGED <<displayCaches, ticks>>

\* (a variant that treats the missing value as the failure of the get is
\* treated: the local cache entry first, whatever its age)
EmptyStoreFallback_Stale(rec) ==
  RemoteFailureFallback(rec, upstashTokenCache[rec.cfg.configId])

\* `if (!tokensJson)`: the tokens of the config if it has an access token,
\* else null
EmptyStoreFallback(rec) ==
  IF rec.userConfig.access_token # 0
    THEN ResolverReturn(rec, rec.userConfig, "config_fallback")
    ELSE ResolverReturn(rec, NULL, "none")

\* upstashGet resolves with the served value
UpstashGetReturns(r) ==
  /\ req[r].pc = "get_served"
  /\ LET rec == req[r]
         id == rec.cfg.configId
     IN IF rec.fetched = NULL
          THEN /\ req' = [req EXCEPT ![r] =
                    EmptyStoreFallback([rec EXCEPT !.getOutcome = "empty"])]
               /\ UNCHANGED upstashTokenCache
          ELSE /\ upstashTokenCache' =
                    [upstashTokenCache EXCEPT ![id] =
                       [tokens |-> rec.fetched, timestamp |-> rec.now]]
               /\ req' = [req EXCEPT ![r] =
                    AfterMerge([rec EXCEPT !.getOutcome = "value",
                                           !.userConfig = Merge(@, rec.fetched)],
                               "remote")]
  /\ UNCHANGED <<now, store, traktGen>>
  /\ UNCHANGED <<displayCaches, ticks>>

\* upstashGet rejects (transport error, non-2xx or the 10 s timeout)
UpstashGetFails(r) ==
  /\ req[r].pc \in {"get_sent", "get_served"}
  /\ req' = [req EXCEPT ![r] =
       RemoteFailureFallback([req[r] EXCEPT !.getOutcome = "failed"],
                             upstashTokenCache[req[r].cfg.configId])]
  /\ UNCHANGED <<now, upstashTokenCache, store, traktGen>>
  /\ UNCHANGED <<displayCaches, ticks>>

\* (a variant without the try/catch around the refresh: the error reaches the
\* resolver's outermost catch, which returns null)
RefreshThrows_Uncaught(rec, outcome) ==
  ResolverReturn([rec EXCEPT !.refreshOutcome = outcome], NULL, "none")

\* refreshTraktTokens throws (storage is 'upstash': the catch rethrows); the
\* resolver's catch logs it and continues with the existing token
RefreshThrows(rec, outcome) ==
  ResolverReturn([rec EXCEPT !.refreshOutcome = outcome],
                 rec.userConfig, rec.src)

\* refreshTraktTokens returns newTokens; the resolver merges them and returns
RefreshDone(rec, outcome) ==
  ResolverReturn([rec EXCEPT !.refreshOutcome = outcome,
                             !.userConfig = Merge(@, rec.newTokens)],
                 Merge(rec.userConfig, rec.newTokens), rec.src)

\* if (storage === 'upstash' && upstashUrl && upstashToken && configId)
StoresToUpstash(uc) ==
  uc.storage = "upstash" /\ uc.upstashUrl # "" /\ uc.upstashToken # ""
    /\ uc.configId # ""

\* the answers of a fetch to the tracking service
FetchOutcomes == {"ok", "rejected", "error"}

\* expires_in of a token response of the tracking service, in seconds
ExpiresInChoices == {DAY, 90 * DAY}

\* the POST to the token endpoint is answered
RefreshPostReturns(r, outcome, expires_in) ==
  /\ req[r].pc = "refresh_post"
  /\ IF outcome = "ok"
       THEN /\ traktGen < MaxGen
            /\ traktGen' = traktGen + 1
            /\ req' = [req EXCEPT ![r].pc = "refresh_settings",
                                  ![r].newTokens =
                                    Tokens(traktGen + 1, traktGen + 1,
                                           now + expires_in)]
       ELSE /\ req' = [req EXCEPT ![r] = RefreshThrows(req[r], "failed")]
            /\ UNCHANGED traktGen
  /\ UNCHANGED <<now, upstashTokenCache, store>>
  /\ UNCHANGED <<displayCaches, ticks>>

\* the GET of /users/settings with the new access token is answered
RefreshSettingsReturns(r, outcome) ==
  /\ req[r].pc = "refresh_settings"
  /\ req' = [req EXCEPT ![r] =
       IF outcome = "error" THEN RefreshThrows(req[r], "lost")
       ELSE IF StoresToUpstash(req[r].userConfig)
         THEN [req[r] EXCEPT !.pc = "set_sent"]
         ELSE RefreshDone(req[r], "ok")]
  /\ UNCHANGED <<now, upstashTokenCache, store, traktGen>>
  /\ UNCHANGED <<displayCaches, ticks>>

\* the remote store applies the set of the new token set
StoreAppliesSet(r) ==
  /\ req[r].pc = "set_sent"
  /\ store' = [store EXCEPT ![req[r].cfg.configId] = req[r].newTokens]
  /\ req' = [req EXCEPT ![r].pc = "set_applied"]
  /\ UNCHANGED <<now, upstashTokenCache, traktGen>>
  /\ UNCHANGED <<displayCaches, ticks>>

\* upstashSet resolves: the local cache is updated and newTokens returned
UpstashSetReturns(r) ==
  /\ req[r].pc = "set_applied"
  /\ upstashTokenCache' =
       [upstashTokenCache EXCEPT ![req[r].cfg.configId] =
          [tokens |-> req[r].newTokens, timestamp |-> now]]
  /\ req' = [req EXCEPT ![r] = RefreshDone(req[r], "ok")]
  /\ UNCHANGED <<now, store, traktGen>>
  /\ UNCHANGED <<displayCaches, ticks>>

\* upstashSet rejects (transport error or timeout): logged, newTokens returned
UpstashSetFails(r) ==
  /\ req[r].pc \in {"set_sent", "set_applied"}
  /\ req' = [req EXCEPT ![r] = RefreshDone(req[r], "unsaved")]
  /\ UNCHANGED <<now, upstashTokenCache, store, traktGen>>
  /\ UNCHANGED <<displayCaches, ticks>>

\* GET /configured/:config/stream/:type/:id.json arrives
StreamRequest(r, c, idk, ok) ==
  /\ req[r].pc \in {"idle", "done", "crashed"}
  /\ req' = [req EXCEPT ![r] =
       ResolveStart([IdleReq EXCEPT !.kind = "stream", !.idKind = idk,
                                    !.prefsOK = ok], c)]
  /\ UNCHANGED <<now, upstashTokenCache, store, traktGen, displayCaches, ticks>>

\* the stream orders of the listing requests: the default, its first and
\* last kinds swapped around, a short list, a list with a kind twice and an
\* unknown kind, and the empty list
StreamOrders ==
  { DefaultStreamOrder,
    <<"unwatched", "remove_from_watchlist", "add_to_watchlist",
      "series_watched", "season_watched", "watched", "rating",
      "current_rating">>,
    <<"unwatched", "watched">>,
    <<"watched", "bogus", "rating", "watched", "season_watched">>,
    <<>> }

\* the preferences of the listing requests
ListingPrefs ==
  { [ratings |-> rs, markAsWatched |-> w, markAsUnwatched |-> u,
     enableSeasonWatched |-> sw, enableWatchlist |-> wl,
     enableRemoveFromWatchlist |-> rwl, showCurrentRating |-> scr,
     enableRemoveRating |-> err, streamOrder |-> so] :
      rs \in {<<>>, <<8, 9>>}, w \in BOOLEAN, u \in BOOLEAN, sw \in BOOLEAN,
      wl \in BOOLEAN, rwl \in BOOLEAN, scr \in BOOLEAN, err \in BOOLEAN,
      so \in StreamOrders }

\* what parseStremioId makes of a parsable id: a movie, an episode
\* (tt:season:episode) or a series without season
ParsedIdKinds == {"movie", "episode", "series"}

\* GET /configured/:config/stream/:type/:id.json arrives, with the
\* preferences of its config
StreamListingRequest(r, c, idk, prefs) ==
  /\ req[r].pc \in {"idle", "done", "crashed"}
  /\ req' = [req EXCEPT ![r] =
       ResolveStart([IdleReq EXCEPT !.kind = "stream", !.idKind = idk,
                                    !.prefs = prefs], c)]
  /\ UNCHANGED <<now, upstashTokenCache, store, traktGen, displayCaches, ticks>>

\* the stream handler resumes with the session
StreamContinues(r) ==
  /\ req[r].pc = "resolved" /\ req[r].kind = "stream"
  /\ req' = [req EXCEPT ![r] = StreamContinuation(req[r])]
  /\ UNCHANGED <<now, upstashTokenCache, store, traktGen, displayCaches, ticks>>

\* a caller invokes getUserRating with an access token
RatingLookup(r, tok) ==
  /\ req[r].pc \in {"idle", "done", "crashed"}
  /\ req' = [req EXCEPT ![r] =
       GetUserRatingStart([IdleReq EXCEPT !.kind = "rating"], tok)]
  /\ UNCHANGED <<now, upstashTokenCache, store, traktGen, displayCaches, ticks>>

\* the fetch of the user's ratings is answered: v is the rating found
RatingFetchReturns(r, outcome, v) ==
  /\ req[r].pc = "rating_fetch"
  /\ LET key == <<"tt1", TokenPrefix(req[r].token)>>
     IN IF outcome = "ok"
          THEN /\ userRatingCache' = [userRatingCache EXCEPT ![key] =
                    [rating |-> v, timestamp |-> req[r].ratingNow]]
               /\ req' = [req EXCEPT ![r] = RatingReturn(req[r], v, -1, "ok")]
          ELSE IF outcome = "rejected"
            THEN /\ UNCHANGED userRatingCache
                 /\ req' = [req EXCEPT ![r] =
                              RatingReturn(req[r], 0, -1, "rejected")]
            ELSE /\ userRatingCache' = [userRatingCache EXCEPT ![key] =
                      [rating |-> 0, timestamp |-> req[r].ratingNow]]
                 /\ req' = [req EXCEPT ![r] =
                              RatingReturn(req[r], 0, -1, "error")]
  /\ UNCHANGED <<now, upstashTokenCache, store, traktGen, traktStatsCache, ticks>>

\* makeTraktRequest of request q has sent its write to the tracking service
WriteIssued(q) ==
  /\ req[q].kind = "action"
  /\ (req[q].pc = "writing" \/ req[q].writeOutcome # "none")

\* the tracking service answers the rating fetch of getUserRating: the answer
\* carries the rating the service holds at that moment and travels back
RatingFetchServed(r, outcome, v) ==
  /\ req[r].pc = "rating_fetch"
  /\ req' = [req EXCEPT ![r].pc = "rating_served",
                        ![r].served =
                          [outcome |-> outcome, rating |-> v,
                           beforeWrite |-> \A q \in AllReqs : ~WriteIssued(q)]]
  /\ UNCHANGED <<now, upstashTokenCache, store, traktGen, displayCaches, ticks>>

\* the answer arrives and getUserRating resumes after its await: a 2xx answer
\* is cached under the time at which getUserRating started
RatingFetchArrives(r) ==
  /\ req[r].pc = "rating_served"
  /\ LET key == <<"tt1", TokenPrefix(req[r].token)>>
         s == req[r].served
     IN IF s.outcome = "ok"
          THEN /\ userRatingCache' = [userRatingCache EXCEPT ![key] =
                    [rating |-> s.rating, timestamp |-> req[r].ratingNow]]
               /\ req' = [req EXCEPT ![r] =
                            RatingReturn(req[r], s.rating, -1, "ok")]
          ELSE IF s.outcome = "rejected"
            THEN /\ UNCHANGED userRatingCache
                 /\ req' = [req EXCEPT ![r] =
                              RatingReturn(req[r], 0, -1, "rejected")]
            ELSE /\ userRatingCache' = [userRatingCache EXCEPT ![key] =
                      [rating |-> 0, timestamp |-> req[r].ratingNow]]
                 /\ req' = [req EXCEPT ![r] =
                              RatingReturn(req[r], 0, -1, "error")]
  /\ UNCHANGED <<now, upstashTokenCache, store, traktGen, traktStatsCache, ticks>>

\* a caller invokes fetchTraktStats
StatsLookup(r) ==
  /\ req[r].pc \in {"idle", "done", "crashed"}
  /\ req' = [req EXCEPT ![r] =
       FetchTraktStatsStart([IdleReq EXCEPT !.kind = "stats"], "tt1")]
  /\ UNCHANGED <<now, upstashTokenCache, store, traktGen, displayCaches, ticks>>

\* the fetch of the statistics is answered
StatsFetchReturns(r, outcome) ==
  /\ req[r].pc = "stats_fetch"
  /\ IF outcome = "ok"
       THEN /\ traktStatsCache' = [traktStatsCache EXCEPT !["tt1"] =
                 [stats |-> "stats", timestamp |-> req[r].statsNow]]
            /\ req' = [req EXCEPT ![r] = StatsReturn(req[r], "stats", -1, "ok")]
       ELSE /\ UNCHANGED traktStatsCache
            /\ req' = [req EXCEPT ![r] = StatsReturn(req[r], NULL, -1, outcome)]
  /\ UNCHANGED <<now, upstashTokenCache, store, traktGen, userRatingCache, ticks>>

\* GET /configured/:config/trakt-action arrives
ActionRequest(r, c, tOK) ==
  /\ req[r].pc \in {"idle", "done", "crashed"}
  /\ req' = [req EXCEPT ![r] =
       ActionHandlerStart([IdleReq EXCEPT !.kind = "action", !.cfg = c,
                                          !.titleOK = tOK])]
  /\ UNCHANGED <<now, upstashTokenCache, store, traktGen, displayCaches, ticks>>

\* the 100 ms timer fires: the callback calls getUserConfigWithTokens
TimerFires(r) ==
  /\ req[r].pc = "timer"
  /\ req' = [req EXCEPT ![r] =
       ResolveStart([req[r] EXCEPT !.events = Append(@, "resolve")], req[r].cfg)]
  /\ UNCHANGED <<now, upstashTokenCache, store, traktGen, displayCaches, ticks>>

\* the callback resumes with the session and calls makeTraktRequest
ActionContinues(r) ==
  /\ req[r].pc = "resolved" /\ req[r].kind = "action"
  /\ req' = [req EXCEPT ![r] = ActionContinuation(req[r])]
  /\ UNCHANGED <<now, upstashTokenCache, store, traktGen, displayCaches, ticks>>

\* makeTraktRequest returns its result: on success the rating cache entry of
\* the media and token is deleted, a failure is logged
WriteReturns(r, success) ==
  /\ req[r].pc = "writing"
  /\ req' = [req EXCEPT ![r].pc = "done",
                        ![r].writeOutcome = IF success THEN "success"
                                            ELSE "failure"]
  /\ userRatingCache' =
       IF success
         THEN [userRatingCache EXCEPT
                 ![<<"tt1", TokenPrefix(req[r].result.access_token)>>] = NULL]
         ELSE userRatingCache
  /\ UNCHANGED <<now, upstashTokenCache, store, traktGen, traktStatsCache, ticks>>

\* POST /oauth/tokens arrives with the store's credentials in its body: 400
\* when one is missing, the fresh cache entry if there is one, else the get
OauthTokensRequest(r, c) ==
  /\ req[r].pc \in {"idle", "done", "crashed"}
  /\ LET rec == [IdleReq EXCEPT !.kind = "tokens", !.cfg = c, !.now = now]
         cached == upstashTokenCache[c.configId]
     IN req' = [req EXCEPT ![r] =
          IF c.upstashUrl = "" \/ c.upstashToken = "" \/ c.configId = ""
            THEN [rec EXCEPT !.pc = "done", !.response = "400",
                             !.responses = 1]
            ELSE IF CacheFresh(cached, now)
              THEN [rec EXCEPT !.pc = "done", !.response = "200",
                               !.responses = 1, !.result = cached.tokens,
                               !.src = "cache", !.returned = TRUE,
                               !.entryAge = now - cached.timestamp,
                               !.usedAge = now - cached.timestamp]
              ELSE [rec EXCEPT !.pc = "tokens_get", !.gets = 1,
                               !.cached = cached,
                               !.entryAge = IF cached = NULL THEN -1
                                            ELSE now - cached.timestamp]]
  /\ UNCHANGED <<now, upstashTokenCache, store, traktGen, displayCaches, ticks>>

\* its upstashGet resolves: 404 when the store holds nothing, else the value
\* is cached and sent
OauthTokensGetReturns(r) ==
  /\ req[r].pc = "tokens_get"
  /\ StoreAccepts(req[r].cfg)
  /\ LET rec == req[r]
         id == rec.cfg.configId
     IN IF store[id] = NULL
          THEN /\ req' = [req EXCEPT ![r].pc = "done", ![r].response = "404",
                                     ![r].responses = 1,
                                     ![r].getOutcome = "empty"]
               /\ UNCHANGED upstashTokenCache
          ELSE /\ upstashTokenCache' =
                    [upstashTokenCache EXCEPT ![id] =
                       [tokens |-> store[id], timestamp |-> rec.now]]
               /\ req' = [req EXCEPT ![r].pc = "done", ![r].response = "200",
                                     ![r].responses = 1,
                                     ![r].getOutcome = "value",
                                     ![r].fetched = store[id],
                                     ![r].result = store[id],
                                     ![r].src = "remote",
                                     ![r].returned = TRUE]
  /\ UNCHANGED <<now, store, traktGen, displayCaches, ticks>>

\* its upstashGet rejects: the cache entry found at the start is sent even if
\* expired, and without one the answer is 500
OauthTokensGetFails(r) ==
  /\ req[r].pc = "tokens_get"
  /\ LET rec == req[r]
         cached == rec.cached
     IN req' = [req EXCEPT ![r] =
          IF cached # NULL
            THEN [rec EXCEPT !.pc = "done", !.response = "200",
                             !.responses = 1, !.getOutcome = "failed",
                             !.result = cached.tokens,
                             !.src = "cache_fallback", !.returned = TRUE,
                             !.usedAge = now - cached.timestamp]
            ELSE [rec EXCEPT !.pc = "done", !.response = "500",
                             !.responses = 1, !.getOutcome = "failed"]]
  /\ UNCHANGED <<now, upstashTokenCache, store, traktGen, displayCaches, ticks>>

\* the bodies of POST /oauth/refresh: refreshToken, clientId, upstashUrl,
\* upstashToken and configId, each present or missing (the body has no
\* storage field)
RefreshBodies ==
  { Cfg("", rt, 0, cl, k[1], k[2], k[3]) :
      rt \in {0, StoreTok}, cl \in {"", "cid"}, k \in UpstashCreds }

\* POST /oauth/refresh arrives: 400 without a refresh token or a client id,
\* else the POST to the token endpoint is sent
OauthRefreshRequest(r, body) ==
  /\ req[r].pc \in {"idle", "done", "crashed"}
  /\ LET rec == [IdleReq EXCEPT !.kind = "refresh", !.cfg = body, !.now = now]
     IN req' = [req EXCEPT ![r] =
          IF body.refresh_token = 0 \/ body.clientId = ""
            THEN [rec EXCEPT !.pc = "done", !.response = "400",
                             !.responses = 1]
            ELSE [rec EXCEPT !.pc = "or_post", !.refreshCalls = 1]]
  /\ UNCHANGED <<now, upstashTokenCache, store, traktGen, displayCaches, ticks>>

\* the token endpoint answers: a rejection or a transport error is thrown to
\* the handler's catch (500); else the tokens are read and /users/settings
\* is called with the new access token
OauthRefreshPostReturns(r, outcome, expires_in) ==
  /\ req[r].pc = "or_post"
  /\ IF outcome = "ok"
       THEN /\ traktGen < MaxGen
            /\ traktGen' = traktGen + 1
            /\ req' = [req EXCEPT ![r].pc = "or_settings",
                                  ![r].newTokens =
                                    Tokens(traktGen + 1, traktGen + 1,
                                           now + expires_in)]
       ELSE /\ req' = [req EXCEPT ![r].pc = "done", ![r].response = "500",
                                  ![r].responses = 1,
                                  ![r].refreshOutcome = "failed"]
            /\ UNCHANGED traktGen
  /\ UNCHANGED <<now, upstashTokenCache, store, displayCaches, ticks>>

\* /users/settings answers. A transport error is thrown to the catch. Else
\* the handler evaluates `storage === 'upstash'`: no `storage` is declared in
\* the handler or the module, the ReferenceError goes to the catch, and the
\* answer is 500; the store set, the cache update and res.json(success) that
\* follow are never reached
OauthRefreshSettingsReturns(r, outcome) ==
  /\ req[r].pc = "or_settings"
  /\ req' = [req EXCEPT ![r].pc = "done", ![r].response = "500",
                        ![r].responses = 1,
                        ![r].refreshOutcome =
                          IF outcome = "error" THEN "lost" ELSE "accepted",
                        ![r].threw = (outcome # "error")]
  /\ UNCHANGED <<now, upstashTokenCache, store, traktGen, displayCaches, ticks>>

\* the bodies of POST /oauth/exchange: clientId, upstashUrl and upstashToken,
\* each credential present or missing
ExchangeBodies ==
  { Cfg("", 0, 0, "cid", k[1], k[2], "") :
      k \in {<<"u1", "k1">>, <<"", "k1">>, <<"u1", "">>, <<"", "">>} }

\* POST /oauth/exchange arrives: the code is posted to the token endpoint
\* (`cached` keeps the token cache of that moment, for the properties)
OauthExchangeRequest(r, body) ==
  /\ req[r].pc \in {"idle", "done", "crashed"}
  /\ req' = [req EXCEPT ![r] =
       [IdleReq EXCEPT !.kind = "exchange", !.pc = "ex_post", !.cfg = body,
                       !.now = now, !.cached = upstashTokenCache]]
  /\ UNCHANGED <<now, upstashTokenCache, store, traktGen, displayCaches, ticks>>

\* the token endpoint answers: a rejection or a transport error goes to the
\* catch (500); else /users/settings is called with the new access token
OauthExchangePostReturns(r, outcome, expires_in) ==
  /\ req[r].pc = "ex_post"
  /\ IF outcome = "ok"
       THEN /\ traktGen < MaxGen
            /\ traktGen' = traktGen + 1
            /\ req' = [req EXCEPT ![r].pc = "ex_settings",
                                  ![r].refreshOutcome = "issued",
                                  ![r].newTokens =
                                    Tokens(traktGen + 1, traktGen + 1,
                                           expires_in)]
       ELSE /\ req' = [req EXCEPT ![r].pc = "done", ![r].response = "500",
                                  ![r].responses = 1]
            /\ UNCHANGED traktGen
  /\ UNCHANGED <<now, upstashTokenCache, store, displayCaches, ticks>>

\* (a variant that still names the remote storage after a failed write)
ExchangeRespondUrl_Upstash(rec) ==
  [rec EXCEPT !.pc = "done", !.response = "200", !.responses = 1,
              !.result = [storage |-> IF rec.writeOutcome = "failed"
                                        THEN "upstash" ELSE "url",
                          tokens |-> rec.newTokens]]

\* the answer of the handler without a stored session: the tokens, for a
\* config that embeds them
ExchangeRespondUrl(rec) ==
  [rec EXCEPT !.pc = "done", !.response = "200", !.responses = 1,
              !.result = [storage |-> "url", tokens |-> rec.newTokens]]

\* after the user lookup: with both credentials a config id is generated and
\* the upstashSet of the tokens is sent, else the tokens are answered
ExchangeAfterSettings(rec, id) ==
  IF rec.cfg.upstashUrl # "" /\ rec.cfg.upstashToken # ""
    THEN [rec EXCEPT !.pc = "ex_set_sent", !.cfg.configId = id]
    ELSE ExchangeRespondUrl(rec)

\* /users/settings answers (a rejection only leaves the default username); a
\* transport error goes to the catch (500). expires_at is set from the clock
\* and generateConfigId draws the id
OauthExchangeSettingsReturns(r, outcome, id) ==
  /\ req[r].pc = "ex_settings"
  /\ req' = [req EXCEPT ![r] =
       IF outcome = "error"
         THEN [req[r] EXCEPT !.pc = "done", !.response = "500",
                             !.responses = 1, !.refreshOutcome = "lost"]
         ELSE ExchangeAfterSettings(
                [req[r] EXCEPT !.newTokens.expires_at = now + @], id)]
  /\ UNCHANGED <<now, upstashTokenCache, store, traktGen, displayCaches, ticks>>

\* the remote store applies the set of the exchanged tokens
OauthExchangeStoreApplies(r) ==
  /\ req[r].pc = "ex_set_sent"
  /\ store' = [store EXCEPT ![req[r].cfg.configId] = req[r].newTokens]
  /\ req' = [req EXCEPT ![r].pc = "ex_set_applied"]
  /\ UNCHANGED <<now, upstashTokenCache, traktGen, displayCaches, ticks>>

\* upstashSet resolves: the tokens are cached under the id, and the answer
\* names the id and storage 'upstash'
OauthExchangeSetReturns(r) ==
  /\ req[r].pc = "ex_set_applied"
  /\ upstashTokenCache' =
       [upstashTokenCache EXCEPT ![req[r].cfg.configId] =
          [tokens |-> req[r].newTokens, timestamp |-> now]]
  /\ req' = [req EXCEPT
       ![r].pc = "done", ![r].response = "200", ![r].responses = 1,
       ![r].writeOutcome = "ok",
       ![r].result = [storage |-> "upstash",
                      configId |-> req[r].cfg.configId,
                      tokens |-> req[r].newTokens]]
  /\ UNCHANGED <<now, store, traktGen, displayCaches, ticks>>

\* upstashSet rejects (transport error, non-2xx or timeout): logged, and the
\* answer is that of URL storage
OauthExchangeSetFails(r) ==
  /\ req[r].pc \in {"ex_set_sent", "ex_set_applied"}
  /\ req' = [req EXCEPT ![r] =
       ExchangeRespondUrl([req[r] EXCEPT !.writeOutcome = "failed"])]
  /\ UNCHANGED <<now, upstashTokenCache, store, traktGen, displayCaches, ticks>>

\* a caller invokes makeTraktRequest(action, type, imdbId, title, userConfig,
\* rating, season, episode)
MakeTraktRequest(r, action, ref, keepSingle, markOnRate) ==
  /\ req[r].pc \in {"idle", "done", "crashed"}
  /\ req' = [req EXCEPT ![r] =
       MakeTraktRequestStart(
         [IdleReq EXCEPT !.kind = "write",
                         !.w.action = action, !.w.ref = ref,
                         !.w.keepSingleWatchedState = keepSingle,
                         !.w.markAsPlayedOnRate = markOnRate])]
  /\ UNCHANGED <<now, upstashTokenCache, store, traktGen, displayCaches, ticks>>

\* the remove-history fetch of deleteOlderWatchedStates is answered
RemoveHistoryReturns(r, outcome) ==
  /\ req[r].pc = "w_remove"
  /\ req' = [req EXCEPT ![r] = AfterRemove(req[r], outcome)]
  /\ UNCHANGED <<now, upstashTokenCache, store, traktGen, displayCaches, ticks>>

\* the 500 ms delay after the cleanup is over
DelayElapses(r) ==
  /\ req[r].pc = "w_delay"
  /\ req' = [req EXCEPT ![r] = AfterDelay(req[r])]
  /\ UNCHANGED <<now, upstashTokenCache, store, traktGen, displayCaches, ticks>>

\* the mark-watched fetch before a rating is answered: its status is logged
\* and a thrown error is caught; the rating follows in every case
WatchBeforeRatingReturns(r, outcome) ==
  /\ req[r].pc = "w_watch"
  /\ req' = [req EXCEPT ![r] =
       MainWrite(Answered(req[r], "sync/history", outcome))]
  /\ UNCHANGED <<now, upstashTokenCache, store, traktGen, displayCaches, ticks>>

\* the main write is answered
MainWriteReturns(r, outcome) ==
  /\ req[r].pc = "w_main"
  /\ req' = [req EXCEPT ![r] = AfterMainWrite(req[r], outcome)]
  /\ UNCHANGED <<now, upstashTokenCache, store, traktGen, displayCaches, ticks>>

\* a caller encodes a preference object
EncodeConfig(r, pref) ==
  /\ req[r].pc = "idle"
  /\ req' = [req EXCEPT ![r] =
       [IdleReq EXCEPT !.kind = "codec", !.pc = "encoded",
                       !.codec.pref = pref,
                       !.codec.encoded = encodeConfig(pref)]]
  /\ UNCHANGED <<now, upstashTokenCache, store, traktGen, displayCaches, ticks>>

\* the encoded string, cut after its first n characters (all of them: the
\* string itself), is given to decodeConfig
DecodeEncoded(r, n) ==
  /\ req[r].pc = "encoded"
  /\ n <= Len(req[r].codec.encoded)
  /\ LET str == SubSeq(req[r].codec.encoded, 1, n)
     IN req' = [req EXCEPT
          ![r].pc = "done",
          ![r].codec.origin = IF n = Len(req[r].codec.encoded)
                                THEN "encoded" ELSE "truncated",
          ![r].codec.input = str,
          ![r].codec.decoded = decodeConfig(str)]
  /\ UNCHANGED <<now, upstashTokenCache, store, traktGen, displayCaches, ticks>>

\* a string that is no encoding is given to decodeConfig
DecodeGarbage(r, str) ==
  /\ req[r].pc = "idle"
  /\ req' = [req EXCEPT ![r] =
       [IdleReq EXCEPT !.kind = "codec", !.pc = "done",
                       !.codec.origin = "garbage",
                       !.codec.input = str,
                       !.codec.decoded = decodeConfig(str)]]
  /\ UNCHANGED <<now, upstashTokenCache, store, traktGen, displayCaches, ticks>>

\* GET /configured/:config/manifest.json: decodeConfig returns null for a
\* string it cannot decode and throws nothing, so the handler's catch (which
\* would send the generic descriptor) is not entered and the descriptor of
\* the try block is sent
ConfiguredManifest(r, config) ==
  /\ req[r].pc \in {"idle", "encoded"}
  /\ req' = [req EXCEPT
       ![r].kind = "manifest", ![r].pc = "done",
       ![r].response = "200", ![r].responses = 1,
       ![r].codec.origin = "manifest",
       ![r].codec.input = config,
       ![r].codec.decoded = decodeConfig(config),
       ![r].codec.manifest =
         ConfiguredManifestFor(config, decodeConfig(config))]
  /\ UNCHANGED <<now, upstashTokenCache, store, traktGen, displayCaches, ticks>>

\* a caller invokes parseStremioId(id, type)
ParseStremioId(r, id, type) ==
  /\ req[r].pc = "idle"
  /\ req' = [req EXCEPT ![r] =
       [IdleReq EXCEPT !.kind = "pure", !.pc = "done",
                       !.pure = [fn |-> "parseStremioId",
                                 arg |-> [id |-> id, type |-> type],
                                 out |-> parseStremioId(id, type)]]]
  /\ UNCHANGED <<now, upstashTokenCache, store, traktGen, displayCaches, ticks>>

\* a caller invokes formatNumber(num)
FormatNumber(r, num, tieUp) ==
  /\ req[r].pc = "idle"
  /\ req' = [req EXCEPT ![r] =
       [IdleReq EXCEPT !.kind = "pure", !.pc = "done",
                       !.pure = [fn |-> "formatNumber",
                                 arg |-> [num |-> num],
                                 out |-> formatNumber(num, tieUp)]]]
  /\ UNCHANGED <<now, upstashTokenCache, store, traktGen, displayCaches, ticks>>

\* a caller invokes generateRatingVisual(style, rating)
GenerateRatingVisual(r, style, rating) ==
  /\ req[r].pc = "idle"
  /\ req' = [req EXCEPT ![r] =
       [IdleReq EXCEPT !.kind = "pure", !.pc = "done",
                       !.pure = [fn |-> "generateRatingVisual",
                                 arg |-> [style |-> style, rating |-> rating],
                                 out |-> generateRatingVisual(style, rating)]]]
  /\ UNCHANGED <<now, upstashTokenCache, store, traktGen, displayCaches, ticks>>

\* the clock advances
Tick(d) ==
  /\ ticks < MaxTicks
  /\ ticks' = ticks + 1
  /\ now' = now + d
  /\ UNCHANGED <<upstashTokenCache, store, traktGen, displayCaches, req>>

\* the resolver's remote-store get
GetSteps ==
  \/ \E r \in Reqs : StoreServesGet(r)
  \/ \E r \in Reqs : UpstashGetReturns(r)
  \/ \E r \in Reqs : UpstashGetFails(r)

\* the resolver's token refresh
RefreshSteps ==
  \/ \E r \in Reqs, o \in FetchOutcomes, e \in ExpiresInChoices :
       RefreshPostReturns(r, o, e)
  \/ \E r \in Reqs, o \in FetchOutcomes : RefreshSettingsReturns(r, o)
  \/ \E r \in Reqs : StoreAppliesSet(r)
  \/ \E r \in Reqs : UpstashSetReturns(r)
  \/ \E r \in Reqs : UpstashSetFails(r)

\* The token resolver, called directly, one call after the other
Next ==
  \/ \E r \in Reqs, c \in Configs : Resolve(r, c)
  \/ GetSteps
  \/ RefreshSteps
  \/ Tick(HalfTTL)

Spec == Init /\ [][Next]_vars

\* a remote store that holds nothing or a token set 90 days from its expiry,
\* which no resolution refreshes
InitFar ==
  /\ Init
  /\ \A id \in ConfigIds :
       store[id] \in {NULL, Tokens(StoreTok, StoreTok, StartTime + 90 * DAY)}

\* The three caches: direct calls of the resolver, of getUserRating and of
\* fetchTraktStats, and requests to POST /oauth/tokens, while the clock advances by half a token TTL, by a rating
\* TTL or by a statistics TTL
CacheTickSteps == {HalfTTL, USER_RATING_CACHE_TTL, CACHE_TTL}

NextCaches ==
  \/ \E r \in Reqs, c \in {x \in RemoteConfigs : x.clientId # ""} :
       Resolve(r, c)
  \/ GetSteps
  \/ \E r \in Reqs,
          c \in {x \in UpstashConfigs : x.clientId # "" /\ x.access_token = 0} :
       OauthTokensRequest(r, c)
  \/ \E r \in Reqs : OauthTokensGetReturns(r)
  \/ \E r \in Reqs : OauthTokensGetFails(r)
  \/ \E r \in Reqs, tok \in {StoreTok} : RatingLookup(r, tok)
  \/ \E r \in Reqs, o \in FetchOutcomes, v \in Ratings :
       RatingFetchReturns(r, o, v)
  \/ \E r \in Reqs : StatsLookup(r)
  \/ \E r \in Reqs, o \in FetchOutcomes : StatsFetchReturns(r, o)
  \/ \E d \in CacheTickSteps : Tick(d)

SpecCaches == InitFar /\ [][NextCaches]_vars

\* The stream listing, one request after the other
NextStream ==
  \/ \E r \in Reqs, c \in Configs, idk \in IdKinds, ok \in BOOLEAN :
       StreamRequest(r, c, idk, ok)
  \/ \E r \in Reqs : StreamContinues(r)
  \/ GetSteps
  \/ \E r \in Reqs, o \in FetchOutcomes, v \in Ratings :
       RatingFetchReturns(r, o, v)
  \/ \E r \in Reqs, o \in FetchOutcomes : StatsFetchReturns(r, o)

SpecStream == InitFar /\ [][NextStream]_vars

\* The action trigger, one request after the other
NextAction ==
  \/ \E r \in Reqs, c \in Configs, tOK \in BOOLEAN : ActionRequest(r, c, tOK)
  \/ \E r \in Reqs : TimerFires(r)
  \/ \E r \in Reqs : ActionContinues(r)
  \/ GetSteps
  \/ RefreshSteps
  \/ \E r \in Reqs, ok \in BOOLEAN : WriteReturns(r, ok)
  \/ Tick(HalfTTL)

SpecAction == Init /\ [][NextAction]_vars

\* makeTraktRequest, one call after the other
NextWrite ==
  \/ \E r \in Reqs, a \in ActionNames, ref \in MediaRefs,
        ks \in BOOLEAN, mp \in BOOLEAN :
       MakeTraktRequest(r, a, ref, ks, mp)
  \/ \E r \in Reqs, o \in FetchOutcomes : RemoveHistoryReturns(r, o)
  \/ \E r \in Reqs : DelayElapses(r)
  \/ \E r \in Reqs, o \in FetchOutcomes : WatchBeforeRatingReturns(r, o)
  \/ \E r \in Reqs, o \in FetchOutcomes : MainWriteReturns(r, o)

SpecWrite == InitFar /\ [][NextWrite]_vars

\* the longest encoding of a preference object of the model
MaxEncodedLen == 4 * ((((2 * MaxLen) + 20) \div 3) + 1)

\* The config codec and the configured manifest: preference objects are
\* encoded and decoded again, whole or truncated, other strings are decoded,
\* and the manifest is requested with an encoding or with another string
NextCodec ==
  \/ \E r \in Reqs, pref \in PrefObjects : EncodeConfig(r, pref)
  \/ \E r \in Reqs, n \in 0..MaxEncodedLen : DecodeEncoded(r, n)
  \/ \E r \in Reqs, str \in GarbageStrings : DecodeGarbage(r, str)
  \/ \E r \in Reqs, str \in GarbageStrings :
       req[r].pc = "idle" /\ ConfiguredManifest(r, str)
  \/ \E r \in Reqs :
       req[r].pc = "encoded" /\ ConfiguredManifest(r, req[r].codec.encoded)

SpecCodec == InitFar /\ [][NextCodec]_vars

\* the session of the two concurrent requests: a remote-mode config with a
\* client id, with or without tokens of its own
PairConfigs ==
  { c \in RemoteConfigs : c.clientId # "" }

\* the store holds a token set 10 days from its expiry, with or without a
\* refresh token, or one 90 days from it; the cache holds nothing, or an entry
\* that an earlier resolution left and that is older than the TTL
InitPair ==
  /\ now = StartTime
  /\ store \in [ConfigIds -> { Tokens(StoreTok, rt, StartTime + off) :
                                 rt \in {0, StoreTok},
                                 off \in {10 * DAY, 90 * DAY} }]
  /\ traktGen = StoreTok
  /\ traktStatsCache = [m \in Media |-> NULL]
  /\ userRatingCache = [k \in RatingKeys |-> NULL]
  /\ ticks = 0
  /\ req = [r \in AllReqs |-> IdleReq]
  /\ upstashTokenCache \in
       [ConfigIds -> {NULL, [tokens |-> Tokens(StoreTok, StoreTok,
                                               StartTime + 10 * DAY),
                             timestamp |-> StartTime - UPSTASH_CACHE_TTL]}]

\* Two requests resolve the same session at the same time: every step of the
\* resolver, for either request, in any order
NextPair ==
  \/ \E r \in AllReqs, c \in PairConfigs :
       req[r].pc = "idle" /\ Resolve(r, c)
  \/ \E r \in AllReqs : StoreServesGet(r)
  \/ \E r \in AllReqs : UpstashGetReturns(r)
  \/ \E r \in AllReqs : UpstashGetFails(r)
  \/ \E r \in AllReqs, o \in FetchOutcomes, e \in ExpiresInChoices :
       RefreshPostReturns(r, o, e)
  \/ \E r \in AllReqs, o \in FetchOutcomes : RefreshSettingsReturns(r, o)
  \/ \E r \in AllReqs : StoreAppliesSet(r)
  \/ \E r \in AllReqs : UpstashSetReturns(r)
  \/ \E r \in AllReqs : UpstashSetFails(r)

SpecPair == InitPair /\ [][NextPair]_vars

\* The manual refresh endpoint
NextRefreshEndpoint ==
  \/ \E r \in Reqs, body \in RefreshBodies : OauthRefreshRequest(r, body)
  \/ \E r \in Reqs, o \in FetchOutcomes, e \in ExpiresInChoices :
       OauthRefreshPostReturns(r, o, e)
  \/ \E r \in Reqs, o \in FetchOutcomes : OauthRefreshSettingsReturns(r, o)
  \/ Tick(HalfTTL)

SpecRefreshEndpoint == InitFar /\ [][NextRefreshEndpoint]_vars

\* the config of the listing requests: tokens embedded, with a client id
ListingConfigs ==
  { c \in UrlConfigs :
      c.storage = "url" /\ c.access_token # 0
        /\ c.expires_at > StartTime }

\* The stream listing: one request for each preference set, id and answer of
\* the rating and statistics fetches
NextListing ==
  \/ \E r \in Reqs, c \in ListingConfigs, idk \in ParsedIdKinds,
          prefs \in ListingPrefs :
       req[r].pc = "idle" /\ StreamListingRequest(r, c, idk, prefs)
  \/ \E r \in Reqs : StreamContinues(r)
  \/ \E r \in Reqs, o \in FetchOutcomes, v \in Ratings :
       RatingFetchReturns(r, o, v)
  \/ \E r \in Reqs, o \in FetchOutcomes : StatsFetchReturns(r, o)

\* the listing requests carry their tokens: the remote store is empty
InitListing == InitFar /\ \A id \in ConfigIds : store[id] = NULL

SpecListing == InitListing /\ [][NextListing]_vars

\* the types of the stream route
MediaTypes == {"movie", "series"}

\* parseStremioId on every id
NextParse ==
  \E r \in Reqs, id \in Ids, type \in MediaTypes : ParseStremioId(r, id, type)

SpecParse == InitListing /\ [][NextParse]_vars

\* The formatting helpers of the stream titles
NextFormat ==
  \/ \E r \in Reqs, num \in NumberInputs, tieUp \in BOOLEAN :
       FormatNumber(r, num, tieUp)
  \/ \E r \in Reqs, style \in RatingStyles, rating \in (0 - 1)..12 :
       GenerateRatingVisual(r, style, rating)

SpecFormat == InitListing /\ [][NextFormat]_vars

\* The OAuth exchange endpoint
NextExchange ==
  \/ \E r \in Reqs, body \in ExchangeBodies : OauthExchangeRequest(r, body)
  \/ \E r \in Reqs, o \in FetchOutcomes, e \in ExpiresInChoices :
       OauthExchangePostReturns(r, o, e)
  \/ \E r \in Reqs, o \in FetchOutcomes, id \in ConfigIds :
       OauthExchangeSettingsReturns(r, o, id)
  \/ \E r \in Reqs : OauthExchangeStoreApplies(r)
  \/ \E r \in Reqs : OauthExchangeSetReturns(r)
  \/ \E r \in Reqs : OauthExchangeSetFails(r)
  \/ Tick(HalfTTL)

SpecExchange == InitFar /\ [][NextExchange]_vars

\* A trakt-action request (r1) and a stream listing (r2) of the same media and
\* session run at the same time; the session carries its own access token
RaceConfigs == { c \in UrlConfigs : c.access_token = EmbTok }

NextRace ==
  \/ \E c \in RaceConfigs, tOK \in BOOLEAN :
       req["r1"].pc = "idle" /\ ActionRequest("r1", c, tOK)
  \/ TimerFires("r1")
  \/ ActionContinues("r1")
  \/ \E ok \in BOOLEAN : WriteReturns("r1", ok)
  \/ \E c \in RaceConfigs, idk \in IdKinds :
       req["r2"].pc = "idle" /\ StreamRequest("r2", c, idk, TRUE)
  \/ StreamContinues("r2")
  \/ \E o \in FetchOutcomes, v \in Ratings : RatingFetchServed("r2", o, v)
  \/ RatingFetchArrives("r2")
  \/ \E o \in FetchOutcomes : StatsFetchReturns("r2", o)

SpecRace == InitFar /\ [][NextRace]_vars

\* Two callers look up the user's rating of the same media, each with an
\* access token of its own: the tokens may be the same, differ within their
\* first ten characters, or differ only after them
IsolationTokens == {StoreTok, EmbTok, TwinTok}

NextIsolation ==
  \/ \E r \in AllReqs, tok \in IsolationTokens :
       req[r].pc = "idle" /\ RatingLookup(r, tok)
  \/ \E r \in AllReqs, o \in FetchOutcomes, v \in Ratings :
       RatingFetchReturns(r, o, v)
  \/ Tick(HalfTTL)

SpecIsolation == InitFar /\ [][NextIsolation]_vars

\* The owner of a session resolves it (r1) while a stream listing, an action
\* trigger or POST /oauth/tokens names the same config id with credentials
\* that the remote store rejects (r2)
NextCreds ==
  \/ \E c \in {x \in RemoteConfigs : x.clientId # ""} :
       req["r1"].pc = "idle" /\ Resolve("r1", c)
  \/ \E c \in RejectedConfigs, idk \in IdKinds :
       req["r2"].pc = "idle" /\ StreamRequest("r2", c, idk, TRUE)
  \/ \E c \in RejectedConfigs :
       req["r2"].pc = "idle" /\ ActionRequest("r2", c, TRUE)
  \/ TimerFires("r2")
  \/ \E c \in RejectedConfigs :
       req["r2"].pc = "idle" /\ OauthTokensRequest("r2", c)
  \/ \E r \in AllReqs : StoreServesGet(r)
  \/ \E r \in AllReqs : UpstashGetReturns(r)
  \/ \E r \in AllReqs : UpstashGetFails(r)
  \/ OauthTokensGetFails("r2")
  \/ Tick(HalfTTL)

SpecCreds == InitFar /\ [][NextCreds]_vars

\* The remote store holds nothing under the session key; the local cache
\* holds nothing either, or an entry older than the TTL that an earlier
\* resolution left
InitEmpty ==
  /\ now = StartTime
  /\ store = [id \in ConfigIds |-> NULL]
  /\ traktGen = StoreTok
  /\ traktStatsCache = [m \in Media |-> NULL]
  /\ userRatingCache = [k \in RatingKeys |-> NULL]
  /\ ticks = 0
  /\ req = [r \in AllReqs |-> IdleReq]
  /\ upstashTokenCache \in
       [ConfigIds -> {NULL, [tokens |-> Tokens(StoreTok, StoreTok,
                                               StartTime + 10 * DAY),
                             timestamp |-> StartTime - UPSTASH_CACHE_TTL]}]

NextEmpty ==
  \/ \E r \in Reqs, c \in UpstashConfigs : Resolve(r, c)
  \/ GetSteps
  \/ \E r \in Reqs, c \in UpstashConfigs : OauthTokensRequest(r, c)
  \/ \E r \in Reqs : OauthTokensGetReturns(r)
  \/ \E r \in Reqs : OauthTokensGetFails(r)
  \/ Tick(HalfTTL)

SpecEmpty == InitEmpty /\ [][NextEmpty]_vars

----------------------------------------------------------------------------
(* Properties of the token resolver *)

\* the session carries this token set
Carries(session, tokens) ==
  /\ session # NULL
  /\ session.access_token = tokens.access_token
  /\ session.expires_at = tokens.expires_at

\* the decoded config selects the remote store and names its credentials
RemoteMode(c) ==
  /\ c # NULL
  /\ c.storage = "upstash"
  /\ c.upstashUrl # "" /\ c.upstashToken # "" /\ c.configId # ""

\* the step of request r in which getUserConfigWithTokens is called
StartsResolving(r) ==
  req[r].pc \in {"idle", "done", "crashed"} /\ req'[r] # req[r]

\* the step of request r in which getUserConfigWithTokens returns
ReturnsNow(r) ==
  /\ req[r].pc \in {"idle", "done", "crashed"} \/ ~req[r].returned
  /\ req'[r].returned
  /\ req'[r] # req[r]

\* C1: with storage absent or 'url', resolution issues no remote-store get and
\* no refresh call whatever the expiry timestamp, and returns the decoded
\* config itself if it carries an access token, 'no session' otherwise.
C1_EmbeddedNeverRemote ==
  \A r \in AllReqs :
    LET q == req[r]
    IN (q.pc # "idle" /\ q.cfg # NULL /\ q.cfg.storage \in {"", "url"}) =>
         /\ q.returned
         /\ q.gets = 0
         /\ q.refreshCalls = 0
         /\ q.result = IF q.cfg.access_token # 0 THEN q.cfg ELSE NULL

\* an embedded-mode config whose token expired was resolved to itself
C1_Witness ==
  \E r \in AllReqs :
    /\ req[r].returned
    /\ req[r].cfg # NULL
    /\ req[r].cfg.storage = ""
    /\ req[r].cfg.access_token # 0
    /\ req[r].cfg.expires_at < now
    /\ req[r].result = req[r].cfg

\* C2: when the remote-store get fails, resolution returns the cached token
\* set for the config id if any entry exists (even an expired one), else the
\* decoded config if it has an access token, else 'no session'.
C2_FallbackOrder ==
  [][\A r \in AllReqs :
       (req[r].pc \in {"get_sent", "get_served"}
          /\ req'[r].getOutcome = "failed") =>
         LET cached == upstashTokenCache[req[r].cfg.configId]
             c == req[r].cfg
             q2 == req'[r]
         IN /\ q2.returned
            /\ q2.gets = 1
            /\ q2.refreshCalls = 0
            /\ IF cached # NULL
                 THEN Carries(q2.result, cached.tokens)
                 ELSE IF c.access_token # 0
                   THEN q2.result = c
                   ELSE q2.result = NULL]_vars

\* the get failed and the tokens of an expired cache entry were returned,
\* although the config carries a token of its own
C2_Witness ==
  \E r \in AllReqs :
    /\ req[r].returned
    /\ req[r].getOutcome = "failed"
    /\ req[r].usedAge >= 5 * 60
    /\ req[r].cfg.access_token # 0
    /\ req[r].result.access_token # req[r].cfg.access_token

\* C3 as stated: the cache entry is used without a get iff it exists and is
\* younger than 5 minutes; otherwise a get is issued and, when the store
\* holds a value, the fetched token set is returned and is the cache entry.
C3_Original ==
  \A r \in Reqs :
    LET q == req[r]
    IN (q.returned /\ RemoteMode(q.cfg)) =>
         /\ q.gets = 0 <=> (q.entryAge >= 0 /\ q.entryAge < 5 * 60)
         /\ q.getOutcome = "value" =>
              /\ Carries(q.result, q.fetched)
              /\ upstashTokenCache[q.cfg.configId].tokens = q.fetched

\* C3 (amended): the cache entry is used without a get iff it exists and is
\* younger than 5 minutes; otherwise a get is issued and, when the store
\* holds a value, the fetched token set replaces the cache entry and is
\* returned, unless a refresh then succeeds: then the refreshed set is returned.
C3_TTLRespect ==
  [][\A r \in AllReqs :
       LET q == req[r]
           q2 == req'[r]
       IN /\ (StartsResolving(r) /\ RemoteMode(q2.cfg)) =>
               LET e == upstashTokenCache[q2.cfg.configId]
               IN /\ q2.gets = 0 <=> (e # NULL /\ now - e.timestamp < 5 * 60)
                  /\ q2.gets = 0 => q2.resolved = TokensOf(Merge(q2.cfg, e.tokens))
                  /\ q2.gets # 0 => (q2.gets = 1 /\ q2.pc = "get_sent")
          /\ (q.pc = "get_served" /\ q2.getOutcome = "value") =>
               /\ upstashTokenCache'[q.cfg.configId] =
                    [tokens |-> q.fetched, timestamp |-> q.now]
               /\ Carries(q2.userConfig, q.fetched)
          /\ (q2.returned /\ q2.getOutcome = "value") =>
               \/ Carries(q2.result, q2.fetched)
               \/ /\ q2.refreshOutcome \in {"ok", "unsaved"}
                  /\ Carries(q2.result, q2.newTokens)]_vars

\* a stale entry existed, the get was issued and its value was returned
C3_Witness ==
  \E r \in AllReqs :
    /\ req[r].returned
    /\ req[r].entryAge >= 5 * 60
    /\ req[r].gets = 1
    /\ req[r].getOutcome = "value"
    /\ Carries(req[r].result, req[r].fetched)
    /\ upstashTokenCache[req[r].cfg.configId].timestamp = req[r].now

\* C5: a token set obtained through the remote path (fresh cache hit or
\* successful get), with refresh token and client id present, is refreshed
\* exactly when its expiry is less than 30 days after the current time.
C5_RefreshWindow ==
  \A r \in AllReqs :
    LET q == req[r]
    IN (q.returned /\ q.src \in {"cache", "remote"} /\ q.resolved # NULL
          /\ q.resolved.refresh_token # 0 /\ q.cfg.clientId # "") =>
         (q.resolved.expires_at - q.now < 30 * 24 * 60 * 60
            <=> q.refreshCalls >= 1)

\* a stored token set with a refresh token, expiring in less than a day, was
\* resolved for a config with a client id, and no refresh call was made
C5_Witness ==
  \E r \in AllReqs :
    /\ req[r].returned
    /\ req[r].src \in {"cache", "remote"}
    /\ req[r].resolved # NULL
    /\ req[r].resolved.refresh_token # 0
    /\ req[r].cfg.clientId # ""
    /\ req[r].resolved.expires_at - req[r].now > 0
    /\ req[r].resolved.expires_at - req[r].now < DAY
    /\ req[r].refreshCalls = 0

\* C6: whenever the tracking service accepted a refresh, afterwards the
\* remote-store entry and the local cache entry hold the new token set and
\* the returned session carries the new access token.
C6_RefreshPersisted ==
  \A r \in Reqs :
    LET q == req[r]
    IN (q.returned /\ q.newTokens # NULL) =>
         /\ store[q.cfg.configId] = q.newTokens
         /\ upstashTokenCache[q.cfg.configId] # NULL
         /\ upstashTokenCache[q.cfg.configId].tokens = q.newTokens
         /\ Carries(q.result, q.newTokens)

\* the tracking service issued a new token set, the store write failed, and
\* the store and the cache still hold the token set that was replaced
C6_Witness ==
  \E r \in AllReqs :
    /\ req[r].returned
    /\ req[r].newTokens # NULL
    /\ req[r].refreshOutcome = "unsaved"
    /\ Carries(req[r].result, req[r].newTokens)
    /\ store[req[r].cfg.configId] = req[r].fetched
    /\ upstashTokenCache[req[r].cfg.configId].tokens = req[r].fetched

\* the tracking service issued a new token set, the profile fetch that follows
\* threw, and the new token set reached neither the caller nor the store
C6_WitnessLost ==
  \E r \in AllReqs :
    /\ req[r].returned
    /\ req[r].newTokens # NULL
    /\ req[r].refreshOutcome = "lost"
    /\ ~Carries(req[r].result, req[r].newTokens)
    /\ store[req[r].cfg.configId] # req[r].newTokens

\* C7: when the refresh call fails (non-2xx, network error, or refresh token
\* or client id missing), the resolver still returns the session with the
\* token set resolved before, and leaves the cache and the store as they were.
C7_RefreshFailureAbsorbed ==
  [][\A r \in AllReqs :
       LET q == req[r]
           q2 == req'[r]
       IN (ReturnsNow(r) /\ q2.refreshOutcome \in {"failed", "missing"}) =>
            /\ q2.result # NULL
            /\ TokensOf(q2.result) = q2.resolved
            /\ q2.result = q2.userConfig
            /\ store' = store
            /\ \/ upstashTokenCache' = upstashTokenCache
               \/ /\ q.pc = "get_served"
                  /\ upstashTokenCache' =
                       [upstashTokenCache EXCEPT ![q.cfg.configId] =
                          [tokens |-> q.fetched, timestamp |-> q.now]]]_vars

\* the token endpoint refused the refresh and the session was still returned
C7_Witness ==
  \E r \in AllReqs :
    /\ req[r].returned
    /\ req[r].refreshOutcome = "failed"
    /\ req[r].refreshCalls = 1
    /\ req[r].result # NULL
    /\ TokensOf(req[r].result) = req[r].resolved

----------------------------------------------------------------------------
(* Properties of the caches and of the route handlers *)

C8_AlwaysRedirects ==
  \A r \in AllReqs :
    (req[r].kind = "action" /\ req[r].pc # "idle") =>
      (req[r].response = "redirect" /\ req[r].responses = 1)

\* a request whose title is not a valid percent-encoding ended in the
\* handler's uncaught exception, with no response sent
C8_Witness ==
  \E r \in AllReqs :
    /\ req[r].kind = "action" /\ req[r].pc = "crashed"
    /\ ~req[r].titleOK
    /\ req[r].threw
    /\ req[r].response = "none" /\ req[r].responses = 0

\* C9: the redirect is sent before session resolution and the write begin;
\* the write is attempted at most once; a failed write or a failed session
\* resolution leaves the response as it was.
C9_RedirectFirst ==
  \A r \in AllReqs :
    LET q == req[r]
        n(e) == Cardinality({i \in 1..Len(q.events) : q.events[i] = e})
    IN q.kind = "action" =>
         /\ q.events # <<>> => q.events[1] = "redirect"
         /\ n("redirect") <= 1 /\ n("resolve") <= 1 /\ n("write") <= 1
         /\ (n("write") = 1 => n("resolve") = 1)
         /\ q.pc \notin {"idle", "crashed"} =>
              (q.response = "redirect" /\ q.responses = 1
                 /\ q.events[1] = "redirect")
         /\ q.pc = "crashed" => q.events = <<>>

\* the write failed after the redirect, the session resolution and the one
\* write, in this order
C9_Witness ==
  \E r \in AllReqs :
    /\ req[r].kind = "action" /\ req[r].pc = "done"
    /\ req[r].events = <<"redirect", "resolve", "write">>
    /\ req[r].writeOutcome = "failure"
    /\ req[r].response = "redirect" /\ req[r].responses = 1

\* C10: a stream request with no usable session, with an id that does not
\* parse or with a step that throws is answered with an empty streams array;
\* the resolver returns 'no session' on each of its failure paths and the
\* handler never ends in an uncaught error.
C10_StreamNeverFails ==
  \A r \in AllReqs :
    LET q == req[r]
        c == q.cfg
    IN q.kind = "stream" =>
         /\ q.pc # "crashed"
         /\ q.pc = "done" =>
              /\ q.returned
              /\ q.response \in {"empty", "streams"} /\ q.responses = 1
              /\ (q.result = NULL \/ q.result.access_token = 0
                    \/ q.idKind = "unparsable" \/ q.threw) =>
                   q.response = "empty"
         /\ (q.returned /\ c = NULL) => q.result = NULL
         /\ (q.returned /\ c # NULL) =>
              /\ (c.storage \in {"", "url"} /\ c.access_token = 0) =>
                   q.result = NULL
              /\ c.storage \notin {"", "url", "upstash"} => q.result = NULL
              /\ (c.storage = "upstash" /\ ~RemoteMode(c)) => q.result = NULL
              /\ (RemoteMode(c) /\ c.access_token = 0
                    /\ q.getOutcome = "empty") => q.result = NULL
              /\ (RemoteMode(c) /\ c.access_token = 0
                    /\ q.getOutcome = "failed"
                    /\ upstashTokenCache[c.configId] = NULL) =>
                   q.result = NULL

\* a session was resolved, a step of the listing threw, and the answer was the
\* empty list
C10_Witness ==
  \E r \in AllReqs :
    /\ req[r].kind = "stream" /\ req[r].pc = "done"
    /\ req[r].result # NULL
    /\ req[r].threw
    /\ req[r].response = "empty" /\ req[r].responses = 1

----------------------------------------------------------------------------
(* Properties of makeTraktRequest *)

IsSend(e) == e[1] = "send"

\* the paths of the calls a makeTraktRequest call has issued, in order
SentCalls(rec) ==
  LET sends == SelectSeq(rec.w.trace, IsSend)
  IN [i \in 1..Len(sends) |-> sends[i][2]]

\* the main write of the call was answered with this outcome
MainAnswer(rec, outcome) ==
  \E i \in 1..Len(rec.w.trace) :
    /\ rec.w.trace[i][1] = "answer"
    /\ rec.w.trace[i][2] = MainEndpoint(rec.w.action, rec.w.ref)
    /\ rec.w.trace[i][3] = outcome

\* C11: with keepSingleWatchedState and markAsPlayedOnRate off, a call of
\* makeTraktRequest for any of the eight actions and any media reference has
\* issued exactly one write when it returns.
C11_OneWrite ==
  \A r \in AllReqs :
    LET q == req[r]
    IN (q.kind = "write" /\ q.pc = "done"
          /\ q.w.action \in ActionKinds
          /\ ~q.w.keepSingleWatchedState /\ ~q.w.markAsPlayedOnRate) =>
         Len(SentCalls(q)) = 1

\* mark_unwatched for a series without season and episode returned success
\* and issued no call
C11_Witness ==
  \E r \in AllReqs :
    /\ req[r].kind = "write" /\ req[r].pc = "done"
    /\ req[r].w.action = "mark_unwatched" /\ req[r].w.ref = "series"
    /\ ~req[r].w.keepSingleWatchedState /\ ~req[r].w.markAsPlayedOnRate
    /\ req[r].w.result = "success"
    /\ req[r].w.trace = <<>>

\* C12: with markAsPlayedOnRate on, a rate_only call for a movie or an episode
\* has issued, when it returns, a mark-watched write followed by the rating
\* write as its last two calls.
C12_CompoundRate ==
  \A r \in AllReqs :
    LET q == req[r]
        calls == SentCalls(q)
        n == Len(calls)
    IN (q.kind = "write" /\ q.pc = "done" /\ q.w.action = "rate_only"
          /\ IsMovieOrEpisode(q.w.ref) /\ q.w.markAsPlayedOnRate) =>
         /\ n >= 2
         /\ calls[n - 1] = "sync/history"
         /\ calls[n] = "sync/ratings"

\* a movie was rated with markAsPlayedOnRate on and keepSingleWatchedState
\* off: the call succeeded and the rating was its only write
C12_Witness ==
  \E r \in AllReqs :
    /\ req[r].kind = "write" /\ req[r].pc = "done"
    /\ req[r].w.action = "rate_only" /\ req[r].w.ref = "movie"
    /\ req[r].w.markAsPlayedOnRate /\ ~req[r].w.keepSingleWatchedState
    /\ req[r].w.result = "success"
    /\ SentCalls(req[r]) = <<"sync/ratings">>

\* C13: with keepSingleWatchedState on, mark_watched for a movie or an episode
\* issues the remove-history call first, and the mark-watched call only after
\* its answer and the delay; whatever the answer of the removal (2xx, non-2xx,
\* thrown), the mark-watched call is issued before the call returns.
C13_DedupOrder ==
  \A r \in AllReqs :
    LET q == req[r]
        t == q.w.trace
    IN (q.kind = "write" /\ q.w.action = "mark_watched"
          /\ q.w.keepSingleWatchedState /\ IsMovieOrEpisode(q.w.ref)) =>
         /\ Len(t) >= 1 /\ t[1] = <<"send", "sync/history/remove">>
         /\ \A i \in 1..Len(t) :
              t[i] = <<"send", "sync/history">> =>
                /\ i = 4
                /\ t[2][1] = "answer" /\ t[2][2] = "sync/history/remove"
                /\ t[3] = <<"delay">>
         /\ q.pc = "done" =>
              /\ Len(t) = 5
              /\ t[4] = <<"send", "sync/history">>
              /\ q.w.cleanupDone <=> t[2][3] = "ok"

\* the removal threw, and the movie was marked watched all the same
C13_Witness ==
  \E r \in AllReqs :
    /\ req[r].kind = "write" /\ req[r].pc = "done"
    /\ req[r].w.action = "mark_watched" /\ req[r].w.ref = "movie"
    /\ req[r].w.keepSingleWatchedState
    /\ req[r].w.trace[2] = <<"answer", "sync/history/remove", "error">>
    /\ req[r].w.trace[4] = <<"send", "sync/history">>
    /\ req[r].w.result = "success"

\* C14: once the main write of an action is answered non-2xx or has thrown,
\* makeTraktRequest has returned, with success false; it never ends in an
\* uncaught error, and success true is returned only without such an answer.
C14_WriteFailureIsValue ==
  \A r \in AllReqs :
    LET q == req[r]
    IN q.kind = "write" =>
         /\ q.pc # "crashed"
         /\ (MainAnswer(q, "rejected") \/ MainAnswer(q, "error")) =>
              (q.pc = "done" /\ q.w.result = "failure")
         /\ q.w.result = "failure" =>
              (MainAnswer(q, "rejected") \/ MainAnswer(q, "error"))
         /\ MainAnswer(q, "ok") => (q.pc = "done" /\ q.w.result = "success")

\* the rating write was answered non-2xx after the mark-watched write before
\* it had succeeded: the result is a failure
C14_Witness ==
  \E r \in AllReqs :
    /\ req[r].kind = "write" /\ req[r].pc = "done"
    /\ req[r].w.action = "rate_only"
    /\ <<"answer", "sync/history", "ok">> \in
         {req[r].w.trace[i] : i \in 1..Len(req[r].w.trace)}
    /\ MainAnswer(req[r], "rejected")
    /\ req[r].w.result = "failure"

----------------------------------------------------------------------------
(* Properties of the config codec *)

Contains(str, x) == \E i \in 1..Len(str) : str[i] = x

UrlSafe(str) ==
  ~Contains(str, B64.plus) /\ ~Contains(str, B64.slash) /\ ~Contains(str, B64.pad)

\* C15: decoding the encoding of a preference object gives back an object
\* equal to it; the encoded string has no '+', '/' or '='; and the decoding
\* succeeds whatever the length of the unpadded string modulo 4
C15_RoundTrip ==
  \A r \in Reqs :
    /\ req[r].kind = "codec" /\ req[r].pc = "encoded"
         => UrlSafe(req[r].codec.encoded)
    /\ req[r].codec.origin = "encoded"
         => /\ req[r].codec.decoded = req[r].codec.pref
            /\ UrlSafe(req[r].codec.input)

\* an object whose encoding needed '-' or '_' and lost its padding, with a
\* quote and a two-byte character in its value, has been decoded
C15_Witness ==
  \E r \in Reqs :
    /\ req[r].codec.origin = "encoded"
    /\ req[r].codec.decoded = req[r].codec.pref
    /\ Len(req[r].codec.input) % 4 # 0
    /\ \/ Contains(req[r].codec.input, B64.minus)
       \/ Contains(req[r].codec.input, B64.underscore)
    /\ req[r].codec.pref.kv # <<>>
    /\ req[r].codec.pref.kv[1][2].t = "str"
    /\ Contains(req[r].codec.pref.kv[1][2].s, Ch.quote)
    /\ Contains(req[r].codec.pref.kv[1][2].s, Ch.eacute)

\* C16: for every string that is not the encoding of a preference object
\* (a truncated encoding, or a string that decodes to no text of a JSON
\* object) decodeConfig returns null
C16_DecodeRobust ==
  \A r \in Reqs :
    req[r].codec.origin \in {"truncated", "garbage"}
      => req[r].codec.decoded = NULL

\* a truncated encoding and a string with a character of no alphabet have
\* been answered with null
C16_Witness ==
  \E r \in Reqs :
    /\ req[r].codec.decoded = NULL
    /\ \/ req[r].codec.origin = "truncated" /\ Len(req[r].codec.input) > 4
       \/ /\ req[r].codec.origin = "garbage"
          /\ Contains(req[r].codec.input, B64.other)

\* (the part of C16 that the code keeps: a truncated encoding gives null)
TruncatedGivesNull ==
  \A r \in Reqs :
    req[r].codec.origin = "truncated" => req[r].codec.decoded = NULL

----------------------------------------------------------------------------
(* Properties of concurrent resolutions *)

\* the first lookup of the resolution found no cache entry or a stale one
FoundNoFreshEntry(rec) ==
  rec.pc # "idle" /\ (rec.entryAge = -1 \/ rec.entryAge >= UPSTASH_CACHE_TTL)

\* the tokens the get returned are inside the refresh window and can be
\* refreshed
FetchedNeedsRefresh(rec) ==
  /\ rec.getOutcome = "value"
  /\ NeedsRefresh(Merge(rec.cfg, rec.fetched), rec.now)
  /\ Merge(rec.cfg, rec.fetched).refresh_token # 0

\* C17: of two requests that resolve the same remote-mode session at the
\* same time, each that finds no fresh cache entry issues its own get, each
\* whose fetched token is in the refresh window issues its own refresh, and
\* each whose get returned a token set returns a session with a token,
\* whatever the other request does
C17_NoCoordination ==
  \A r \in AllReqs :
    req[r].kind = "resolve" =>
      /\ FoundNoFreshEntry(req[r]) => req[r].gets = 1
      /\ FetchedNeedsRefresh(req[r]) => req[r].refreshCalls = 1
      /\ req[r].returned /\ req[r].getOutcome = "value"
           => req[r].result # NULL /\ req[r].result.access_token # 0

\* both requests have a get in flight at the same time
C17_WitnessGets ==
  \A r \in AllReqs : req[r].pc = "get_sent" /\ req[r].gets = 1

\* both requests have fetched a token inside the window and have a refresh
\* in flight at the same time
C17_Witness ==
  \A r \in AllReqs :
    /\ req[r].kind = "resolve" /\ req[r].pc = "refresh_post"
    /\ FoundNoFreshEntry(req[r]) /\ FetchedNeedsRefresh(req[r])
    /\ req[r].gets = 1 /\ req[r].refreshCalls = 1

\* both requests have returned a session after refreshes that overlapped:
\* one was accepted, the other rejected
C17_WitnessDone ==
  /\ \A r \in AllReqs :
       /\ req[r].returned /\ req[r].refreshCalls = 1
       /\ req[r].result # NULL /\ req[r].result.access_token # 0
  /\ req["r1"].refreshOutcome = "ok" /\ req["r2"].refreshOutcome = "failed"
  /\ req["r2"].result.access_token = StoreTok

----------------------------------------------------------------------------
(* Properties of POST /oauth/refresh *)

\* C18: a manual refresh with a refresh token and a client id that the
\* tracking service accepts answers success with the new token set, and with
\* store credentials and a config id the store entry and the cache entry of
\* that id hold the new token set; without a refresh token or a client id
\* the request is rejected and no outbound call is made
C18_ManualRefresh ==
  \A r \in Reqs :
    req[r].kind = "refresh" /\ req[r].pc = "done" =>
      /\ req[r].cfg.refresh_token = 0 \/ req[r].cfg.clientId = ""
           => req[r].response = "400" /\ req[r].refreshCalls = 0
      /\ req[r].refreshOutcome = "accepted"
           => /\ req[r].response = "200"
              /\ req[r].cfg.upstashUrl # "" /\ req[r].cfg.upstashToken # ""
                   /\ req[r].cfg.configId # ""
                   => /\ store[req[r].cfg.configId] = req[r].newTokens
                      /\ upstashTokenCache[req[r].cfg.configId] # NULL
                      /\ upstashTokenCache[req[r].cfg.configId].tokens
                           = req[r].newTokens

\* a manual refresh that the tracking service accepted has been answered
C18_Witness ==
  \E r \in Reqs :
    /\ req[r].kind = "refresh" /\ req[r].pc = "done"
    /\ req[r].refreshOutcome = "accepted"
    /\ req[r].newTokens # NULL
    /\ req[r].cfg.configId # "" /\ req[r].cfg.upstashUrl # ""

\* (the part of C18 that the code keeps: the rejection of an incomplete body)
RefreshBodyChecked ==
  \A r \in Reqs :
    req[r].kind = "refresh" /\ req[r].pc = "done"
      /\ (req[r].cfg.refresh_token = 0 \/ req[r].cfg.clientId = "")
      => req[r].response = "400" /\ req[r].refreshCalls = 0

----------------------------------------------------------------------------
(* Properties of the configured manifest *)

IsObject(v) == v # NULL /\ v.t = "obj"

\* C19: the configured manifest of a config string that cannot be decoded
\* has the id and the name of the unconfigured manifest; that of a decodable
\* config has the config's username in its name (unless the config turns
\* that off) and in its description, and the config in its configuration link
C19_ManifestFallback ==
  \A r \in Reqs :
    req[r].kind = "manifest" /\ req[r].pc = "done" =>
      LET m == req[r].codec.manifest
          d == req[r].codec.decoded
      IN /\ d = NULL => m.id = DefaultManifest.id /\ m.name = DefaultManifest.name
         /\ IsObject(d) =>
              /\ m.link = [path |-> "/configure", config |-> req[r].codec.input]
              /\ Truthy(Member(d, UsernameKey)) =>
                   /\ m.description.user = Member(d, UsernameKey)
                   /\ Member(d, ShowUsernameKey) # Bool(FALSE)
                        => m.name = [base |-> "Trakt Sync & Rate",
                                     user |-> Member(d, UsernameKey)]

\* the manifest has been sent for a config string that cannot be decoded
C19_Witness ==
  \E r \in Reqs :
    /\ req[r].kind = "manifest" /\ req[r].pc = "done"
    /\ req[r].codec.decoded = NULL
    /\ Contains(req[r].codec.input, B64.other)

\* (the part of C19 that the code keeps: the descriptor of a decodable config)
DecodableIsPersonalised ==
  \A r \in Reqs :
    req[r].kind = "manifest" /\ req[r].pc = "done"
      /\ IsObject(req[r].codec.decoded) =>
      LET m == req[r].codec.manifest
          d == req[r].codec.decoded
      IN /\ m.link = [path |-> "/configure", config |-> req[r].codec.input]
         /\ Truthy(Member(d, UsernameKey)) =>
              /\ m.description.user = Member(d, UsernameKey)
              /\ Member(d, ShowUsernameKey) # Bool(FALSE)
                   => m.name = [base |-> "Trakt Sync & Rate",
                                user |-> Member(d, UsernameKey)]

\* a manifest with the username of its config in its name has been sent
DecodableWitness ==
  \E r \in Reqs :
    /\ req[r].kind = "manifest" /\ req[r].pc = "done"
    /\ IsObject(req[r].codec.decoded)
    /\ req[r].codec.decoded = req[r].codec.pref
    /\ Truthy(Member(req[r].codec.decoded, UsernameKey))
    /\ req[r].codec.manifest.name =
         [base |-> "Trakt Sync & Rate",
          user |-> Member(req[r].codec.decoded, UsernameKey)]

----------------------------------------------------------------------------
(* Properties of the stream listing *)

\* the kind of the stream order that an entry belongs to
KindOfAction(action) ==
  CASE action = "remove_rating" -> "current_rating"
    [] action = "rate_only" -> "rating"
    [] action = "mark_watched" -> "watched"
    [] action = "mark_season_watched" -> "season_watched"
    [] action = "mark_series_watched" -> "series_watched"
    [] action = "add_to_watchlist" -> "add_to_watchlist"
    [] action = "remove_from_watchlist" -> "remove_from_watchlist"
    [] action = "mark_unwatched" -> "unwatched"

\* how many elements of the sequence satisfy x
Count(seq, x) == Cardinality({ i \in 1..Len(seq) : seq[i] = x })

KindsOfStreams(streams) ==
  [i \in 1..Len(streams) |-> KindOfAction(streams[i].action)]

RECURSIVE FollowsOrder(_, _)
\* the kinds of the entries come in the order of the list: each entry
\* belongs to a position of the list not before that of the entry before it
FollowsOrder(kinds, order) ==
  IF kinds = <<>> THEN TRUE
  ELSE IF order = <<>> THEN FALSE
  ELSE IF Head(kinds) = Head(order) THEN FollowsOrder(Tail(kinds), order)
  ELSE FollowsOrder(kinds, Tail(order))

\* the toggle of a kind, as the listing is specified
ToggleOn(kind, rec) ==
  CASE kind = "watched" -> rec.prefs.markAsWatched
    [] kind = "unwatched" -> rec.prefs.markAsUnwatched
    [] kind = "season_watched" ->
         rec.prefs.enableSeasonWatched /\ rec.idKind = "episode"
    [] kind = "add_to_watchlist" -> rec.prefs.enableWatchlist
    [] kind = "remove_from_watchlist" -> rec.prefs.enableRemoveFromWatchlist
    [] kind = "current_rating" ->
         rec.prefs.showCurrentRating /\ rec.prefs.enableRemoveRating
           /\ rec.rating > 0

ToggledKinds ==
  {"watched", "unwatched", "season_watched", "add_to_watchlist",
   "remove_from_watchlist", "current_rating"}

\* C20: the streams sent for a resolved session and a parsable id follow the
\* order of streamOrder; each kind with a toggle has one entry for each time
\* it is listed when its toggle is on and none when it is off; a kind that is
\* not listed has no entry
C20_ListingOrder ==
  \A r \in Reqs :
    req[r].kind = "stream" /\ req[r].pc = "done"
      /\ req[r].response = "streams" =>
      LET kinds == KindsOfStreams(req[r].streams)
          order == req[r].prefs.streamOrder
      IN /\ FollowsOrder(kinds, order)
         /\ \A k \in ToggledKinds :
              Count(kinds, k) =
                IF ToggleOn(k, req[r]) THEN Count(order, k) ELSE 0
         /\ \A k \in {"rating", "series_watched"} :
              Count(order, k) = 0 => Count(kinds, k) = 0

\* a listing in an order of the user's, with a kind listed twice, a kind
\* switched off and a kind not listed, has been sent
C20_Witness ==
  \E r \in Reqs :
    /\ req[r].kind = "stream" /\ req[r].pc = "done"
    /\ req[r].response = "streams"
    /\ req[r].prefs.streamOrder =
         <<"watched", "bogus", "rating", "watched", "season_watched">>
    /\ req[r].idKind = "episode"
    /\ ~req[r].prefs.enableSeasonWatched
    /\ req[r].rating = 8
    /\ req[r].streams =
         <<Entry("mark_watched", 0), Entry("rate_only", 9),
           Entry("mark_watched", 0)>>

\* a listing in the reverse of the default order, with a current rating
C20_WitnessReverse ==
  \E r \in Reqs :
    /\ req[r].kind = "stream" /\ req[r].pc = "done"
    /\ req[r].prefs.streamOrder # DefaultStreamOrder
    /\ Len(req[r].streams) = 7
    /\ req[r].streams[1] = Entry("mark_unwatched", 0)
    /\ req[r].streams[7] = Entry("remove_rating", 8)

----------------------------------------------------------------------------
(* Properties of parseStremioId *)

\* the part is a number: digits only, at least one
Numeric(part) == part # <<>> /\ \A i \in 1..Len(part) : IsDigitChar(part[i])

\* C21: parseStremioId of a series id external-id:season:episode with numeric
\* season and episode returns the external id with the two numbers; of a bare
\* 'tt' id with type movie it returns only the id; of a series id with
\* exactly two parts, or with a season or episode that is not numeric, it
\* returns null
C21_IdParsing ==
  \A r \in Reqs :
    req[r].pure.fn = "parseStremioId" =>
      LET id == req[r].pure.arg.id
          type == req[r].pure.arg.type
          parts == Split(id, <<>>)
          out == req[r].pure.out
      IN /\ type = "series" /\ Len(parts) = 3
              /\ Numeric(parts[2]) /\ Numeric(parts[3])
              => out = [imdbId |-> parts[1], season |-> [digits |-> parts[2]],
                        episode |-> [digits |-> parts[3]]]
         /\ type = "movie" /\ StartsWithTT(id) /\ ~HasColon(id)
              => out = [imdbId |-> id]
         /\ type = "series" /\ Len(parts) = 2 => out = NULL
         /\ type = "series" /\ Len(parts) = 3
              /\ (~Numeric(parts[2]) \/ ~Numeric(parts[3]))
              => out = NULL

\* an id with a season that is not a number has been parsed
C21_Witness ==
  \E r \in Reqs :
    /\ req[r].pure.fn = "parseStremioId"
    /\ req[r].pure.arg = [id |-> <<"t", "t", ":", "x", ":", "7">>,
                          type |-> "series"]
    /\ req[r].pure.out # NULL

\* (the parts of C21 that the code keeps)
ParsesWellFormedIds ==
  \A r \in Reqs :
    req[r].pure.fn = "parseStremioId" =>
      LET id == req[r].pure.arg.id
          type == req[r].pure.arg.type
          parts == Split(id, <<>>)
          out == req[r].pure.out
      IN /\ type = "series" /\ Len(parts) = 3
              /\ Numeric(parts[2]) /\ Numeric(parts[3])
              => out = [imdbId |-> parts[1], season |-> [digits |-> parts[2]],
                        episode |-> [digits |-> parts[3]]]
         /\ type = "movie" /\ StartsWithTT(id) /\ ~HasColon(id)
              => out = [imdbId |-> id]
         /\ type = "series" /\ Len(parts) = 2 => out = NULL

----------------------------------------------------------------------------
(* Properties of the formatting helpers *)

\* the tenths that a formatted text shows
TenthsOf(out) ==
  IF Len(out) = 4 THEN out[1] * 10 + out[3] ELSE out[1] * 10

\* the text shows num / unit to the nearest tenth, without a trailing .0
Abbreviates(out, num, unit, suffix) ==
  /\ Len(out) \in {2, 4}
  /\ out[Len(out)] = suffix
  /\ Len(out) = 4 => out[2] = "." /\ out[3] \in 1..9
  /\ 2 * (TenthsOf(out) * (unit \div 10) - num) <= unit \div 10
  /\ 2 * (num - TenthsOf(out) * (unit \div 10)) <= unit \div 10

\* C22: formatNumber gives the plain decimal below 1000, the thousands with
\* at most one decimal and 'k' from 1000, the millions with at most one
\* decimal and 'M' from 1000000, a trailing .0 stripped; the number of a 'k'
\* result is below 1000
C22_Abbreviation ==
  \A r \in Reqs :
    req[r].pure.fn = "formatNumber" =>
      LET n == req[r].pure.arg.num
          out == req[r].pure.out
      IN /\ n < 1000 => out = <<n>>
         /\ n >= 1000 /\ n < 1000000
              => Abbreviates(out, n, 1000, "k") /\ out[1] < 1000
         /\ n >= 1000000 => Abbreviates(out, n, 1000000, "M")
         /\ n = 1000 => out = <<1, "k">>
         /\ n = 1500000 => out = <<1, ".", 5, "M">>
         /\ n = 2000000 => out = <<2, "M">>

\* a count just below a million has been formatted
C22_Witness ==
  \E r \in Reqs :
    /\ req[r].pure.fn = "formatNumber"
    /\ req[r].pure.arg.num = 999999
    /\ req[r].pure.out = <<1000, "k">>

\* (C22 without its last part)
AbbreviatesEveryNumber ==
  \A r \in Reqs :
    req[r].pure.fn = "formatNumber" =>
      LET n == req[r].pure.arg.num
          out == req[r].pure.out
      IN /\ n < 1000 => out = <<n>>
         /\ n >= 1000 /\ n < 1000000 => Abbreviates(out, n, 1000, "k")
         /\ n >= 1000000 => Abbreviates(out, n, 1000000, "M")

\* C23: for a rating r in 0..10 and the styles stars, hearts, progress and
\* none, the row has exactly 10 glyphs: r filled glyphs of the style, then
\* 10 - r empty ones
C23_GlyphRow ==
  \A r \in Reqs :
    req[r].pure.fn = "generateRatingVisual"
      /\ req[r].pure.arg.rating \in 0..10
      /\ req[r].pure.arg.style \in {"undefined", "stars", "hearts", "progress"}
      =>
      LET n == req[r].pure.arg.rating
          style == req[r].pure.arg.style
          out == req[r].pure.out
          filled == CASE style = "hearts" -> "red heart"
                      [] style = "progress" -> "filled bar"
                      [] OTHER -> "black star"
          empty == CASE style = "hearts" -> "white heart"
                     [] style = "progress" -> "empty bar"
                     [] OTHER -> "white star"
      IN /\ Len(out) = 10
         /\ \A i \in 1..10 : out[i] = IF i <= n THEN filled ELSE empty

\* rating 8 with stars: 8 filled then 2 empty
C23_Witness ==
  \E r \in Reqs :
    /\ req[r].pure.fn = "generateRatingVisual"
    /\ req[r].pure.arg = [style |-> "stars", rating |-> 8]
    /\ req[r].pure.out =
         <<"black star", "black star", "black star", "black star",
           "black star", "black star", "black star", "black star",
           "white star", "white star">>

----------------------------------------------------------------------------
(* Properties of POST /oauth/exchange *)

HasStoreCredentials(rec) == rec.cfg.upstashUrl # "" /\ rec.cfg.upstashToken # ""

\* the two answers of a finished exchange, as the persistence is specified
ExchangePersisted(rec) ==
  /\ HasStoreCredentials(rec) /\ rec.writeOutcome = "ok"
       => /\ rec.response = "200"
          /\ rec.result = [storage |-> "upstash",
                           configId |-> rec.cfg.configId,
                           tokens |-> rec.newTokens]
          /\ store[rec.cfg.configId] = rec.newTokens
          /\ upstashTokenCache[rec.cfg.configId] # NULL
          /\ upstashTokenCache[rec.cfg.configId].tokens = rec.newTokens
  /\ ~HasStoreCredentials(rec) \/ rec.writeOutcome = "failed"
       => /\ rec.response = "200"
          /\ rec.result = [storage |-> "url", tokens |-> rec.newTokens]
          /\ upstashTokenCache = rec.cached

C24_WitnessFailed ==
  \E r \in Reqs :
    /\ req[r].kind = "exchange" /\ req[r].pc = "done"
    /\ req[r].writeOutcome = "failed"
    /\ req[r].result.storage = "url"
    /\ store[req[r].cfg.configId] = req[r].newTokens

----------------------------------------------------------------------------
(* Properties of the result of makeTraktRequest *)

\* C25: makeTraktRequest returns success only if the main write of the
\* requested action was issued and answered 2xx; for an unknown action, or a
\* combination of action and media for which no call is issued, it does not
\* report success
C25_SuccessImpliesWrite ==
  \A r \in Reqs :
    req[r].kind = "write" /\ req[r].pc = "done"
      /\ req[r].w.result = "success"
      => /\ MainEndpoint(req[r].w.action, req[r].w.ref) # "none"
         /\ MainAnswer(req[r], "ok")

\* an unknown action has returned success without any call
C25_Witness ==
  \E r \in Reqs :
    /\ req[r].kind = "write" /\ req[r].pc = "done"
    /\ req[r].w.action = "unknown_action"
    /\ req[r].w.result = "success"
    /\ req[r].w.trace = <<>>

\* (the part of C25 that the code keeps: a main write that was issued and
\* not answered 2xx is never reported as a success)
IssuedWriteDecides ==
  \A r \in Reqs :
    req[r].kind = "write" /\ req[r].pc = "done"
      /\ req[r].w.result = "success"
      /\ MainEndpoint(req[r].w.action, req[r].w.ref) # "none"
      => MainAnswer(req[r], "ok")

----------------------------------------------------------------------------
(* C26: the rating cache after a successful action *)

\* the rating cache entry of the media and of the token of request q
RatingEntryOf(q) ==
  userRatingCache[<<"tt1", TokenPrefix(req[q].result.access_token)>>]

\* request p cached an answer that the tracking service gave before any write
\* was sent to it
CachedPreWriteAnswer(p) ==
  /\ req[p].kind = "stream"
  /\ req[p].ratingOutcome = "ok"
  /\ req[p].served # NULL
  /\ req[p].served.beforeWrite

\* C26: once the background action of a trakt-action request has succeeded
\* and its handler has finished, the rating cache holds no entry for that
\* media and session that was fetched from the tracking service before the
\* write, whatever the interleaving with a concurrent stream listing.
C26_NoPreWriteEntry ==
  \A q \in AllReqs :
    (req[q].kind = "action" /\ req[q].pc = "done"
       /\ req[q].writeOutcome = "success")
      => \/ RatingEntryOf(q) = NULL
         \/ ~\E p \in AllReqs :
               /\ CachedPreWriteAnswer(p)
               /\ req[p].token = req[q].result.access_token

\* the action has succeeded while a listing of the same session had fetched
\* the rating before the write, and the listing is over
C26_Witness ==
  /\ req["r1"].kind = "action" /\ req["r1"].pc = "done"
  /\ req["r1"].writeOutcome = "success"
  /\ CachedPreWriteAnswer("r2")
  /\ req["r2"].pc = "done"
  /\ RatingEntryOf("r1") = NULL

\* the invalidation itself: in the state that the successful write's
\* continuation leaves, the entry of the media and token is gone
C26_DeleteEmpties ==
  [][ \A ok \in BOOLEAN :
        (WriteReturns("r1", ok) /\ ok) => RatingEntryOf("r1")' = NULL ]_vars

----------------------------------------------------------------------------
(* C27: the local cache and the remote store after refreshes *)

\* every request is over, at least one of them refreshed the tokens, and
\* every refresh that was started wrote its new token set to the remote
\* store with success
RefreshesCompleted ==
  /\ \A r \in AllReqs : req[r].pc \in {"idle", "done"}
  /\ \E r \in AllReqs : req[r].refreshCalls > 0
  /\ \A r \in AllReqs :
       req[r].refreshCalls > 0 => req[r].refreshOutcome = "ok"

\* C27: after any set of refreshes for one config id has completed, each
\* with a successful remote-store write, the token set of the local cache
\* entry of that id equals the token set stored in the remote store.
C27_CacheEqualsStore ==
  RefreshesCompleted =>
    \A id \in ConfigIds :
      /\ upstashTokenCache[id] # NULL
      /\ upstashTokenCache[id].tokens = store[id]

\* two concurrent refreshes of the same id have both completed, and the
\* cache and the store hold the same token set
C27_Witness ==
  /\ RefreshesCompleted
  /\ \A r \in AllReqs : req[r].refreshOutcome = "ok"
  /\ upstashTokenCache["c1"] # NULL
  /\ upstashTokenCache["c1"].tokens = store["c1"]

\* a refresh that no other request overlaps leaves the cache and the store
\* equal: upstashSet's continuation caches what the store has just applied
C27_AloneAgrees ==
  (/\ RefreshesCompleted
   /\ \E r \in AllReqs : req[r].pc = "idle") =>
    \A id \in ConfigIds :
      /\ upstashTokenCache[id] # NULL
      /\ upstashTokenCache[id].tokens = store[id]

----------------------------------------------------------------------------
(* C28: the rating cache and the access tokens *)

\* request p was answered from the rating cache
ServedFromCache(p) ==
  req[p].kind = "rating" /\ req[p].pc = "done" /\ req[p].ratingOutcome = "cached"

\* request q put an entry in the rating cache
WroteEntry(q) ==
  req[q].kind = "rating" /\ req[q].pc = "done"
    /\ req[q].ratingOutcome \in {"ok", "error"}

\* C28: the rating that getUserRating returns to a request using access
\* token B is one fetched with token B: a cache entry written while serving
\* another token A is never returned to a request using B.
C28_CacheIsolation ==
  \A p \in AllReqs :
    ServedFromCache(p) =>
      \E q \in AllReqs \ {p} : WroteEntry(q) /\ req[q].token = req[p].token

\* a request is answered from the cache with the entry that a request with
\* the same access token had put there
C28_Witness ==
  \E p \in AllReqs, q \in AllReqs :
    /\ p # q /\ ServedFromCache(p) /\ WroteEntry(q)
    /\ req[q].token = req[p].token
    /\ req[p].rating = req[q].rating

\* what the key does guarantee: an entry is returned only to a token with
\* the first ten characters of the token that fetched it
C28_PrefixIsolation ==
  \A p \in AllReqs :
    ServedFromCache(p) =>
      \E q \in AllReqs \ {p} :
        WroteEntry(q) /\ TokenPrefix(req[q].token) = TokenPrefix(req[p].token)

----------------------------------------------------------------------------
(* C29: the remote store's credentials *)

\* request r is in remote storage mode with credentials that the remote store
\* rejects, and has its answer
RejectedAndAnswered(r) ==
  /\ req[r].cfg # NULL
  /\ req[r].cfg.storage = "upstash"
  /\ req[r].cfg.upstashUrl # "" /\ req[r].cfg.upstashToken # ""
  /\ ~StoreAccepts(req[r].cfg)
  /\ req[r].pc \in {"done", "resolved"}

\* the answer of request r carries the token set stored for its config id
ObtainedStoredTokens(r) ==
  req[r].returned /\ req[r].src \in {"cache", "cache_fallback", "remote"}

\* C29: in remote storage mode a request (stream listing, action trigger or
\* POST /oauth/tokens) whose remote-store URL/token the store would reject
\* never obtains the token set stored for a config id.
C29_CredentialsRequired ==
  \A r \in AllReqs : RejectedAndAnswered(r) => ~ObtainedStoredTokens(r)

\* a request with rejected credentials had its get refused and was answered
\* without the stored token set
C29_Witness ==
  \E r \in AllReqs :
    /\ RejectedAndAnswered(r)
    /\ req[r].getOutcome = "failed"
    /\ ~ObtainedStoredTokens(r)

\* the remote store itself never hands the token set to such a request: what
\* it obtains comes from the local cache
C29_OnlyThroughCache ==
  \A r \in AllReqs :
    (RejectedAndAnswered(r) /\ ObtainedStoredTokens(r)) =>
      /\ req[r].src \in {"cache", "cache_fallback"}
      /\ req[r].getOutcome # "value"

----------------------------------------------------------------------------
(* C30: the remote store answers the get with no value *)

\* the step of request r in which its upstashGet resolves with no value
GetResolvesEmpty(r) ==
  UpstashGetReturns(r) /\ req[r].fetched = NULL

\* C30: in remote storage mode with no fresh cache entry, when the get
\* succeeds but returns no value for the session key, the resolver returns the
\* decoded config with its embedded access token if it has one and no session
\* otherwise; it consults no stale cache entry, makes no refresh call and
\* leaves the local cache unchanged.
C30_EmptyStore ==
  [][ \A r \in Reqs :
        GetResolvesEmpty(r) =>
          /\ req'[r].pc = "done" /\ req'[r].returned
          /\ req'[r].result = IF req[r].cfg.access_token # 0
                                THEN req[r].cfg ELSE NULL
          /\ req'[r].refreshCalls = 0
          /\ upstashTokenCache' = upstashTokenCache
          /\ store' = store ]_vars

\* the get has resolved with no value while the cache held a stale entry of
\* the session, and the resolver has returned the config's own tokens
C30_Witness ==
  \E r \in Reqs :
    /\ req[r].kind = "resolve" /\ req[r].pc = "done"
    /\ req[r].getOutcome = "empty"
    /\ upstashTokenCache[req[r].cfg.configId] # NULL
    /\ req[r].entryAge >= UPSTASH_CACHE_TTL
    /\ req[r].result = req[r].cfg
    /\ req[r].cfg.access_token = EmbTok

\* the same with a config without tokens of its own: no session
C30_WitnessNoSession ==
  \E r \in Reqs :
    /\ req[r].kind = "resolve" /\ req[r].pc = "done"
    /\ req[r].getOutcome = "empty"
    /\ upstashTokenCache[req[r].cfg.configId] # NULL
    /\ req[r].result = NULL

\* POST /oauth/tokens in the same situation answers 404 and leaves the cache
\* unchanged
C30_TokensNotFound ==
  [][ \A r \in Reqs :
        (OauthTokensGetReturns(r) /\ store[req[r].cfg.configId] = NULL) =>
          /\ req'[r].response = "404"
          /\ ~req'[r].returned
          /\ upstashTokenCache' = upstashTokenCache ]_vars

====
